---- MODULE Spec2Model ----
(***************************************************************************)
(* Fill coordination of the mmb trading engine:                            *)
(* Exchange::create_and_add_order_fill and the functions it calls          *)
(* (core/src/exchanges/general/handlers/handle_order_filled.rs), the       *)
(* OrderRef accessors (core/src/orders/pool.rs) and                        *)
(* Exchange::add_event_on_order_change (core/src/exchanges/general/        *)
(* exchange.rs).                                                           *)
(*                                                                         *)
(* Amounts are integers in the amount unit of the symbol, prices are       *)
(* integers in price ticks.  The cost of a derivative symbol is            *)
(* amount / price; it is kept in units of 1 / CostScale, and prices are    *)
(* powers of two that divide CostScale, so every such division is exact    *)
(* (as it is for rust_decimal on these values).                            *)
(***************************************************************************)
EXTENDS Integers, Sequences, FiniteSets, TLC

(***************************************************************************)
(* Bounds                                                                  *)
(***************************************************************************)
MaxAmount == 2
MaxPriceExp == 1
MaxHandled == 2
MaxDelivered == 3

(***************************************************************************)
(* Option<T>: None is the empty sequence, Some(x) the one-element sequence *)
(***************************************************************************)
None == << >>
Some(x) == << x >>
IsSome(o) == o # None
Unwrap(o) == o[1]

RECURSIVE Pow2(_)
Pow2(n) == IF n = 0 THEN 1 ELSE 2 * Pow2(n - 1)

Prices == { Pow2(i) : i \in 0..MaxPriceExp }
CostScale == Pow2(MaxPriceExp)

ClientOrderIds == {"c1"}
ExchangeOrderIds == {"e1"}
TradeIds == {"T1", "T2"}
Threads == {1, 2}

\* order amount of the seed scenario "two diff fills sum to completion"
ScenarioAmount == 12
ScenarioFillAmounts == {5, 7}

OrderAmounts == {MaxAmount, ScenarioAmount}
FillAmounts(order_amount) ==
    IF order_amount = ScenarioAmount THEN ScenarioFillAmounts ELSE 0..(MaxAmount + 1)

TerminalStatuses == {"Canceled", "Completed", "FailedToCreate"}

VARIABLES
    orders,         \* OrdersPool.cache_by_client_id: client_order_id -> OrderSnapshot
    not_finished,   \* OrdersPool.not_finished (set of client_order_id)
    events,         \* Exchange.events_channel: the events sent, in order
    is_derivative,  \* Symbol.is_derivative of the order's symbol
    th,             \* per handling task: position and locals of create_and_add_order_fill
    handled,        \* number of fill events taken in so far
    applied,        \* history: the fill event a venue delivers twice, and whether
                    \* the second delivery has been taken in; or the report
                    \* delivered last and what the pool held for it on arrival
    cache_by_exchange_id,   \* OrdersPool.cache_by_exchange_id:
                            \* exchange_order_id -> Option<client_order_id>
    buffered_fills,         \* Exchange.buffered_fills_manager:
                            \* exchange_order_id -> fill events, in arrival order
    allowed_fill_event_source_type,  \* ExchangeFeatures.trade_option.allowed_fill_event_source_type
    pool,           \* an OrdersPool with the identity of its snapshots: the Arcs
                    \* allocated so far and the two maps keyed by client_order_id
    call,           \* per task: position and locals of a call of OrdersPool
    order_book_top, \* Exchange.order_book_top: currency pair -> Option<OrderBookTop>
    bnb,            \* the last conversion of a commission: its arguments and
                    \* what it left in the converted amount and currency
    balance,        \* a call of Exchange::get_balance: its position, its attempts
                    \* so far, the events it sent and what it returned
    engine,         \* EngineContext and what its graceful shutdown has reached
    graceful,       \* per caller: position and argument of EngineContext::graceful
    now,            \* the clock (Utc::now, tokio time), in ticks
    limiter,        \* per request kind: the calls of reserve_when_available that
                    \* wait and the times at which calls returned a slot
    triggers,       \* ...TriggerScheduler.increasing_count_triggers: the
                    \* count_threshold of every registered trigger
    spawned,        \* the futures spawned by schedule_handler, in order
    schedule_calls  \* history: the calls of schedule_triggers with their arguments

vars == << orders, not_finished, events, is_derivative, th, handled, applied,
           cache_by_exchange_id, buffered_fills, allowed_fill_event_source_type,
           pool, call, order_book_top, bnb, balance, engine, graceful,
           now, limiter, triggers, spawned, schedule_calls >>

\* what the handling of a fill of a known order leaves alone
ingress_vars == << cache_by_exchange_id, buffered_fills,
                   allowed_fill_event_source_type >>
pool_vars == << pool, call >>
\* what neither the handling of a report nor the pool touches
bnb_vars == << order_book_top, bnb >>
graceful_vars == << engine, graceful >>
trigger_vars == << triggers, spawned, schedule_calls >>
service_vars == << bnb_vars, balance, graceful_vars, now, limiter, trigger_vars >>
\* what the conversion of a commission, get_balance, the shutdown and the
\* trigger scheduler each leave alone of these
beside_bnb_vars == << balance, graceful_vars, now, limiter, trigger_vars >>
beside_balance_vars == << bnb_vars, graceful_vars, now, limiter, trigger_vars >>
beside_graceful_vars == << bnb_vars, balance, now, limiter, trigger_vars >>
beside_trigger_vars == << bnb_vars, balance, graceful_vars, limiter >>
beside_limiter_vars == << bnb_vars, balance, graceful_vars, trigger_vars >>

(***************************************************************************)
(* Pure functions of handle_order_filled.rs                                *)
(***************************************************************************)
RECURSIVE SumField(_, _)
SumField(fills, field) ==
    IF fills = << >> THEN 0
    ELSE fills[1][field] + SumField(Tail(fills), field)

\* cost of (amount, price): amount * price, or amount / price for a derivative
Cost(amount, price) ==
    IF ~is_derivative THEN amount * price ELSE (amount * CostScale) \div price

\* the comparison of the trade ids negated
was_trade_already_received_ne(trade_id, order_fills) ==
    /\ IsSome(trade_id)
    /\ \E i \in 1..Len(order_fills) :
          IsSome(order_fills[i].trade_id) /\ order_fills[i].trade_id # trade_id

was_trade_already_received(trade_id, order_fills) ==
    /\ IsSome(trade_id)
    /\ \E i \in 1..Len(order_fills) : order_fills[i].trade_id = trade_id

\* the test of event_data.is_diff negated
diff_fill_after_non_diff_neg(event_data, order_fills) ==
    /\ ~event_data.is_diff
    /\ \E i \in 1..Len(order_fills) : ~order_fills[i].is_diff

diff_fill_after_non_diff(event_data, order_fills) ==
    /\ event_data.is_diff
    /\ \E i \in 1..Len(order_fills) : ~order_fills[i].is_diff

filled_amount_not_less_event_fill(event_data, order_filled_amount) ==
    /\ ~event_data.is_diff
    /\ order_filled_amount >= event_data.fill_amount

\* last_fill_amount left out of the sum
should_miss_fill_stale(event_data, order_filled_amount, last_fill_amount) ==
    /\ IsSome(event_data.total_filled_amount)
    /\ order_filled_amount # Unwrap(event_data.total_filled_amount)

should_miss_fill(event_data, order_filled_amount, last_fill_amount) ==
    /\ IsSome(event_data.total_filled_amount)
    /\ order_filled_amount + last_fill_amount # Unwrap(event_data.total_filled_amount)

\* <= 1 in the place of <= 0
calculate_cost_diff_above_one(order_fills, last_fill_cost) ==
    LET total_filled_cost == SumField(order_fills, "cost")
        cost_diff == last_fill_cost - total_filled_cost
    IN  IF cost_diff <= 1 THEN None ELSE Some(cost_diff)

calculate_cost_diff(order_fills, last_fill_cost) ==
    LET total_filled_cost == SumField(order_fills, "cost")
        cost_diff == last_fill_cost - total_filled_cost
    IN  IF cost_diff <= 0 THEN None ELSE Some(cost_diff)

\* Symbol::price_round(price, Round::ToNearest) of the fraction num / den,
\* in ticks
price_round(num, den) == (2 * num + den) \div (2 * den)

calculate_last_fill_data(last_fill_amount, order_filled_amount, cost_diff) ==
    LET amount_diff == last_fill_amount - order_filled_amount
        last_fill_price ==
            IF ~is_derivative
            THEN price_round(cost_diff, amount_diff)
            ELSE price_round(amount_diff * CostScale, cost_diff)
    IN  [price |-> last_fill_price, amount |-> amount_diff, cost |-> cost_diff]

\* the commission of the event left as the venue sent it
set_commission_amount_kept(event_data, order_fills) == event_data

\* lines 314-322: a cumulative commission becomes the commission of this fill
set_commission_amount(event_data, order_fills) ==
    IF IsSome(event_data.commission_amount)
    THEN [event_data EXCEPT !.commission_amount =
             Some(Unwrap(@) - SumField(order_fills, "commission_amount"))]
    ELSE event_data

\* get_last_fill_data takes the event by &mut: the event as it leaves it
get_last_fill_data_event(event_data, order_fills) ==
    IF ~event_data.is_diff /\ Len(order_fills) > 0
    THEN set_commission_amount(event_data, order_fills)
    ELSE event_data

\* the currencies of the symbol of the orders (test_helper.rs)
base_currency_code == "PHB"
quote_currency_code == "BTC"

\* Commission::get_commission(order_role).fee as a rate, in units of 0.1 %:
\* commissions are kept in thousandths of the unit of amount
expected_commission_rate(order_role) == IF order_role = "Maker" THEN 1 ELSE 2

\* Symbol::get_commission_currency_code for an order that buys, and
\* Symbol::convert_amount_from_amount_currency_code: an amount of the base
\* currency is worth amount * price of the quote currency
get_commission_currency_code == base_currency_code
convert_amount_from_amount_currency_code(to_currency_code, amount_in_amount_currency_code, currency_pair_price) ==
    IF to_currency_code = base_currency_code
    THEN amount_in_amount_currency_code
    ELSE amount_in_amount_currency_code * currency_pair_price

\* the rate of the event never used
get_commission_amount_expected_rate(event_data_commission_amount, event_data_commission_rate, expected_rate, last_fill_amount, last_fill_price, commission_currency_code) ==
    IF IsSome(event_data_commission_amount)
    THEN Unwrap(event_data_commission_amount)
    ELSE convert_amount_from_amount_currency_code(commission_currency_code, last_fill_amount, last_fill_price) * expected_rate

\* lines 355-381
get_commission_amount(event_data_commission_amount, event_data_commission_rate, expected_rate, last_fill_amount, last_fill_price, commission_currency_code) ==
    IF IsSome(event_data_commission_amount)
    THEN Unwrap(event_data_commission_amount)
    ELSE LET commission_rate == IF IsSome(event_data_commission_rate)
                                THEN Unwrap(event_data_commission_rate)
                                ELSE expected_rate
         IN  convert_amount_from_amount_currency_code(commission_currency_code, last_fill_amount, last_fill_price) * commission_rate

\* lines 383-396: an event without commission gets the rate of the venue
set_commission_rate(event_data, order_role) ==
    IF event_data.commission_amount = None /\ event_data.commission_rate = None
    THEN [event_data EXCEPT !.commission_rate = Some(expected_commission_rate(order_role))]
    ELSE event_data

get_last_fill_data(event_data, order_fills, order_filled_amount) ==
    LET first == [price  |-> event_data.fill_price,
                  amount |-> event_data.fill_amount,
                  cost   |-> Cost(event_data.fill_amount, event_data.fill_price)]
        cost_diff == calculate_cost_diff(order_fills, first.cost)
        last == IF ~event_data.is_diff /\ Len(order_fills) > 0
                THEN calculate_last_fill_data(first.amount, order_filled_amount,
                                              Unwrap(cost_diff))
                ELSE first
    IN  IF ~event_data.is_diff /\ Len(order_fills) > 0 /\ cost_diff = None
        THEN None
        ELSE IF last.amount = 0 THEN None ELSE Some(last)


(***************************************************************************)
(* Order snapshots, events, locals of a handling                           *)
(***************************************************************************)
is_finished(order) == order.status \in TerminalStatuses

\* the fill appended, filled_amount left as it was
snapshot_add_fill_stale(order, order_fill) ==
    [order EXCEPT !.fills = Append(@, order_fill)]

\* OrderSnapshot::add_fill: append the fill, recompute filled_amount
snapshot_add_fill(order, order_fill) ==
    [order EXCEPT !.fills = Append(@, order_fill),
                  !.filled_amount = @ + order_fill.amount]

\* OrderRef::deep_clone, reduced to the fields the properties look at
deep_clone(order) ==
    [status |-> order.status, filled_amount |-> order.filled_amount,
     fills |-> order.fills]

IdleLocals ==
    [pc |-> "idle", order_ref |-> None, event_data |-> None,
     order_fills |-> << >>, order_filled_amount |-> 0, last_fill |-> None,
     order_role |-> None, order_fill |-> None, event_type |-> None,
     cloned_order |-> None, log |-> None, panic |-> None,
     drain |-> << >>, resume |-> None, expect_order |-> FALSE]

\* create_and_add_order_fill of task t is over: its locals are dropped; the
\* last line it logged and the panic it ended with, if any, stay visible. A
\* caller that has buffered fills left to apply, or its own event, goes on
\* with them; a panic unwinds the caller as well.
Return(t, log, panic) ==
    IF panic = None /\ (th[t].drain # << >> \/ IsSome(th[t].resume))
    THEN [IdleLocals EXCEPT !.pc = "drain", !.log = log,
                            !.drain = th[t].drain, !.resume = th[t].resume,
                            !.expect_order = th[t].expect_order]
    ELSE [IdleLocals EXCEPT !.log = log, !.panic = panic]

(***************************************************************************)
(* OrdersPool (pool.rs). A snapshot is an Arc: it is known by its position *)
(* in pool.snapshots, an OrderRef is that position.                        *)
(***************************************************************************)
MaxSnapshots == 3
PoolIds == {"c1", "c2"}

EmptyPool ==
    [snapshots |-> << >>,
     cache_by_client_id |-> [id \in PoolIds |-> None],
     not_finished |-> [id \in PoolIds |-> None]]

IdleCall == [pc |-> "idle", client_order_id |-> None, order_ref |-> None,
             returned |-> None]

\* Arc::new(RwLock::new(OrderSnapshot {..})) of the caller
new_snapshot(id, price) ==
    Append(pool.snapshots, [client_order_id |-> id, price |-> price])

\* add_snapshot_initial is entered with a snapshot the caller has allocated
add_snapshot_initial(t, id, price) ==
    /\ call[t].pc = "idle"
    /\ Len(pool.snapshots) < MaxSnapshots
    /\ pool' = [pool EXCEPT !.snapshots = new_snapshot(id, price)]
    /\ call' = [call EXCEPT ![t] =
                  [pc |-> "insert_cache_by_client_id", client_order_id |-> Some(id),
                   order_ref |-> Some(Len(pool.snapshots) + 1), returned |-> None]]

\* self.cache_by_client_id.insert(client_order_id, order_ref)
insert_cache_by_client_id(t) ==
    /\ call[t].pc = "insert_cache_by_client_id"
    /\ pool' = [pool EXCEPT !.cache_by_client_id[Unwrap(call[t].client_order_id)] =
                                call[t].order_ref]
    /\ call' = [call EXCEPT ![t].pc = "insert_not_finished"]

\* self.not_finished.insert(client_order_id, order_ref); order_ref
insert_not_finished(t) ==
    /\ call[t].pc = "insert_not_finished"
    /\ pool' = [pool EXCEPT !.not_finished[Unwrap(call[t].client_order_id)] =
                                call[t].order_ref]
    /\ call' = [call EXCEPT ![t] = [IdleCall EXCEPT
                  !.client_order_id = call[t].client_order_id,
                  !.returned = call[t].order_ref]]

\* match self.cache_by_client_id.get(&header.client_order_id)
add_simple_initial(t, id, price) ==
    /\ call[t].pc = "idle"
    /\ IF IsSome(pool.cache_by_client_id[id])
       THEN /\ call' = [call EXCEPT ![t] = [IdleCall EXCEPT
                          !.client_order_id = Some(id),
                          !.returned = pool.cache_by_client_id[id]]]
            /\ UNCHANGED pool
       ELSE add_snapshot_initial(t, id, price)

PoolStep(t) ==
    \/ insert_cache_by_client_id(t)
    \/ insert_not_finished(t)

FillEvents(order_amount, roles, totals) ==
    [trade_id : {None} \cup { Some(x) : x \in TradeIds },
     fill_price : Prices,
     fill_amount : FillAmounts(order_amount),
     is_diff : BOOLEAN,
     total_filled_amount : {None} \cup { Some(x) : x \in totals },
     order_role : {None} \cup { Some(x) : x \in roles },
     commission_currency_code : {None},
     commission_rate : {None},
     commission_amount : {None}]

(***************************************************************************)
(* The top of the order books the exchange knows (exchange.rs,             *)
(* OrderBookTop): per currency pair an entry with an optional best ask and *)
(* an optional best bid, or no entry.  A pair is <<base, quote>>.          *)
(***************************************************************************)
CommissionCurrencyCodes == {base_currency_code, quote_currency_code, "BNB"}
from_codes(base, quote) == << base, quote >>
CurrencyPairs == {from_codes("BNB", quote_currency_code), from_codes(quote_currency_code, "BNB")}
TopPrices == {1, 2}
OrderBookTop == [ask : {None} \cup { Some(p) : p \in TopPrices },
                 bid : {None} \cup { Some(p) : p \in TopPrices }]
NoOrderBookTop == [pair \in CurrencyPairs |-> None]

\* nothing but the handling of reports and the pool has run
BalancePositionOptions == {"NonDerivative", "SingleRequest", "IndividualRequests"}
BalanceIdle(option) ==
    [pc |-> "idle", option |-> option, retry_attempt |-> 0, outcomes |-> << >>,
     balances_result |-> None, sent |-> << >>, returned |-> None, panic |-> None]

BnbIdle ==
    /\ order_book_top = NoOrderBookTop
    /\ bnb = None

\* the exchanges of the engine, by exchange_account_id
Exchanges == {"x1", "x2"}
\* EngineContext::new, with what the shutdown will act on still running
EngineRunning ==
    [is_graceful_shutdown_started |-> FALSE,
     finish_graceful_shutdown_sender |-> Some("sender"),
     blocked |-> {}, stop_token |-> FALSE,
     user_lvl_shutdown |-> FALSE, stop_blocker |-> FALSE,
     select |-> "none", cancelling |-> [x \in Exchanges |-> "idle"],
     elapsed |-> 0, cancellation_token |-> FALSE,
     core_lvl_shutdown |-> FALSE, disconnected |-> {},
     finished |-> None, futures_cancellation_token |-> FALSE,
     lifetime_manager |-> TRUE]
GracefulIdle == [pc |-> "idle", action |-> None]
EngineIdle ==
    /\ engine = EngineRunning
    /\ graceful = [t \in Threads |-> GracefulIdle]

\* MoreOrEqualsAvailableRequestsCountTriggerScheduler::new
TriggersIdle ==
    /\ triggers = << >>
    /\ spawned = << >>
    /\ schedule_calls = << >>

\* TimeoutManager: the request kinds a venue's reservations are kept for, and
\* a manager no call has reached yet
RequestTypes == {"GetBalance", "GetActivePositions"}
LimiterIdle == limiter = [kind \in RequestTypes |-> [waiting |-> 0, cancelled |-> 0, returned |-> << >>]]

ServiceIdle ==
    /\ BnbIdle
    /\ balance = BalanceIdle("NonDerivative")
    /\ EngineIdle
    /\ now = 0
    /\ LimiterIdle
    /\ TriggersIdle

Init ==
    /\ orders \in [ClientOrderIds ->
                     [amount : OrderAmounts,
                      status : {"Creating"},
                      role : {None, Some("Taker")},
                      was_cancellation_event_raised : {FALSE},
                      fills : {<< >>},
                      filled_amount : {0}]]
    /\ not_finished = ClientOrderIds
    /\ events = << >>
    /\ is_derivative \in BOOLEAN
    /\ th = [t \in Threads |-> IdleLocals]
    /\ handled = 0
    /\ applied = None
    /\ cache_by_exchange_id = [e \in ExchangeOrderIds |-> None]
    /\ buffered_fills = [e \in ExchangeOrderIds |-> << >>]
    /\ allowed_fill_event_source_type = "All"
    /\ pool = EmptyPool
    /\ call = [t \in Threads |-> IdleCall]
    /\ ServiceIdle

(***************************************************************************)
(* Exchange::add_event_on_order_change (exchange.rs), applied to the pool  *)
(* state ords the caller has produced                                      *)
(***************************************************************************)
add_event_on_order_change(ords, c, event_type, cloned_order) ==
    LET ords2 == IF event_type = "CancelOrderSucceeded"
                 THEN [ords EXCEPT ![c].was_cancellation_event_raised = TRUE]
                 ELSE ords
    IN  /\ orders' = ords2
        /\ not_finished' = IF is_finished(ords2[c]) THEN not_finished \ {c}
                           ELSE not_finished
        /\ events' = Append(events, [order |-> c, event_type |-> event_type,
                                     cloned_order |-> cloned_order])

(***************************************************************************)
(* Exchange::create_and_add_order_fill, one action per lock scope          *)
(***************************************************************************)
\* line 553: the call and its snapshot read (OrderRef::get_fills)
create_and_add_order_fill(t, c, event_data) ==
    /\ th[t].pc = "idle"
    /\ handled < MaxHandled
    /\ handled' = handled + 1
    /\ th' = [th EXCEPT ![t] =
               [IdleLocals EXCEPT !.pc = "guards",
                                  !.order_ref = Some(c),
                                  !.event_data = Some(event_data),
                                  !.order_fills = orders[c].fills,
                                  !.order_filled_amount = orders[c].filled_amount]]
    /\ UNCHANGED << orders, not_finished, events, is_derivative >>

\* lines 555-588: the guards a-f, computed on the snapshot; the value is the
\* line logged by the first guard that rejects the event, None if none does
guards_log(event_data, order_fills, order_filled_amount) ==
    LET last_fill == get_last_fill_data(event_data, order_fills, order_filled_amount)
    IN  IF was_trade_already_received(event_data.trade_id, order_fills)
        THEN Some("Trade was received already")
        ELSE IF diff_fill_after_non_diff(event_data, order_fills)
        THEN Some("Unable to process a diff fill after a non-diff one")
        ELSE IF filled_amount_not_less_event_fill(event_data, order_filled_amount)
        THEN Some("order.filled_amount >= received fill")
        ELSE IF last_fill = None
        THEN IF event_data.fill_amount = 0
             THEN Some("last_fill_amount was received for 0")
             ELSE Some("cost_diff <= 0")
        ELSE IF should_miss_fill(event_data, order_filled_amount, Unwrap(last_fill).amount)
        THEN Some("Fill was missed")
        ELSE None

\* the test of the order's status taken before the guards
guards_after_status(t) ==
    /\ th[t].pc = "guards"
    /\ LET event_data == Unwrap(th[t].event_data)
           order == orders[Unwrap(th[t].order_ref)]
           log == guards_log(event_data, th[t].order_fills, th[t].order_filled_amount)
       IN  th' = [th EXCEPT ![t] =
                   IF is_finished(order) \/ order.was_cancellation_event_raised
                   THEN Return(t, None, Some("Fill was received for a"))
                   ELSE IF IsSome(log)
                   THEN Return(t, log, None)
                   ELSE [@ EXCEPT !.pc = "panic_if_wrong_status_or_cancelled",
                                  !.event_data = Some(get_last_fill_data_event(event_data, th[t].order_fills)),
                                  !.last_fill =
                                      get_last_fill_data(event_data, th[t].order_fills,
                                                         th[t].order_filled_amount)]]
    /\ UNCHANGED << orders, not_finished, events, is_derivative, handled >>

guards(t) ==
    /\ th[t].pc = "guards"
    /\ LET event_data == Unwrap(th[t].event_data)
           log == guards_log(event_data, th[t].order_fills, th[t].order_filled_amount)
       IN  th' = [th EXCEPT ![t] =
                   IF IsSome(log)
                   THEN Return(t, log, None)
                   ELSE [@ EXCEPT !.pc = "panic_if_wrong_status_or_cancelled",
                                  !.event_data = Some(get_last_fill_data_event(event_data, th[t].order_fills)),
                                  !.last_fill =
                                      get_last_fill_data(event_data, th[t].order_fills,
                                                         th[t].order_filled_amount)]]
    /\ UNCHANGED << orders, not_finished, events, is_derivative, handled >>

\* the test of was_cancellation_event_raised left out
panic_if_wrong_status(t) ==
    /\ th[t].pc = "panic_if_wrong_status_or_cancelled"
    /\ LET order == orders[Unwrap(th[t].order_ref)]
       IN  th' = [th EXCEPT ![t] =
                   IF \/ order.status = "FailedToCreate"
                      \/ order.status = "Completed"
                   THEN Return(t, None, Some("Fill was received for a"))
                   ELSE [@ EXCEPT !.pc = "get_order_role"]]
    /\ UNCHANGED << orders, not_finished, events, is_derivative, handled >>

panic_if_wrong_status_or_cancelled(t) ==
    /\ th[t].pc = "panic_if_wrong_status_or_cancelled"
    /\ LET order == orders[Unwrap(th[t].order_ref)]
       IN  th' = [th EXCEPT ![t] =
                   IF \/ order.status = "FailedToCreate"
                      \/ order.status = "Completed"
                      \/ order.was_cancellation_event_raised
                   THEN Return(t, None, Some("Fill was received for a"))
                   ELSE [@ EXCEPT !.pc = "get_order_role"]]
    /\ UNCHANGED << orders, not_finished, events, is_derivative, handled >>

\* the role of the order taken although the event has one
get_order_role_of_order(t) ==
    /\ th[t].pc = "get_order_role"
    /\ LET order == orders[Unwrap(th[t].order_ref)]
           event_data == Unwrap(th[t].event_data)
       IN  th' = [th EXCEPT ![t] =
                   IF order.role = None
                   THEN Return(t, None, Some("Unable to determine order_role"))
                   ELSE [@ EXCEPT !.pc = "add_fill", !.order_role = order.role,
                                  !.event_data = Some(set_commission_rate(event_data, Unwrap(order.role)))]]
    /\ UNCHANGED << orders, not_finished, events, is_derivative, handled >>

\* lines 339-353 and the call of set_commission_rate that follows
get_order_role(t) ==
    /\ th[t].pc = "get_order_role"
    /\ LET order == orders[Unwrap(th[t].order_ref)]
           event_data == Unwrap(th[t].event_data)
       IN  th' = [th EXCEPT ![t] =
                   IF IsSome(event_data.order_role)
                   THEN [@ EXCEPT !.pc = "add_fill", !.order_role = event_data.order_role,
                                  !.event_data = Some(set_commission_rate(event_data, Unwrap(event_data.order_role)))]
                   ELSE IF event_data.commission_amount = None /\ event_data.commission_rate = None /\ order.role = None
                   THEN Return(t, None, Some("Fill has neither commission nor commission rate"))
                   ELSE IF order.role = None
                   THEN Return(t, None, Some("Unable to determine order_role"))
                   ELSE [@ EXCEPT !.pc = "add_fill", !.order_role = order.role,
                                  !.event_data = Some(set_commission_rate(event_data, Unwrap(order.role)))]]
    /\ UNCHANGED << orders, not_finished, events, is_derivative, handled >>

add_fill(t) ==
    /\ th[t].pc = "add_fill"
    /\ LET c == Unwrap(th[t].order_ref)
           event_data == Unwrap(th[t].event_data)
           last_fill == Unwrap(th[t].last_fill)
           order_fill == [trade_id |-> event_data.trade_id,
                          price |-> price_round(last_fill.price, 1),
                          amount |-> last_fill.amount,
                          cost |-> last_fill.cost,
                          role |-> Unwrap(th[t].order_role),
                          commission_amount |->
                              get_commission_amount(event_data.commission_amount,
                                  event_data.commission_rate,
                                  expected_commission_rate(Unwrap(th[t].order_role)),
                                  last_fill.amount, last_fill.price,
                                  IF IsSome(event_data.commission_currency_code)
                                  THEN Unwrap(event_data.commission_currency_code)
                                  ELSE get_commission_currency_code),
                          is_diff |-> event_data.is_diff]
       IN  /\ orders' = [orders EXCEPT ![c] = snapshot_add_fill(@, order_fill)]
           /\ th' = [th EXCEPT ![t].pc = "panic_if_fill_amounts_comformity",
                               ![t].order_fill = Some(order_fill)]
    /\ UNCHANGED << not_finished, events, is_derivative, handled >>

\* lines 646-648: re-read filled_amount, compare it with header.amount
panic_if_fill_amounts_comformity(t) ==
    /\ th[t].pc = "panic_if_fill_amounts_comformity"
    /\ LET order == orders[Unwrap(th[t].order_ref)]
           order_filled_amount == order.filled_amount
       IN  th' = [th EXCEPT ![t] =
                   IF order_filled_amount > order.amount
                   THEN Return(t, Some("Received fill"), Some("filled_amount > order.amount"))
                   ELSE [@ EXCEPT !.pc = "send_order_filled_event",
                                  !.order_filled_amount = order_filled_amount]]
    /\ UNCHANGED << orders, not_finished, events, is_derivative, handled >>

\* the OrderFilled event sent after the reaction to the completion
send_order_filled_event_late(t) ==
    /\ th[t].pc = "send_order_filled_event"
    /\ LET c == Unwrap(th[t].order_ref)
       IN  /\ orders' = IF th[t].order_filled_amount = orders[c].amount
                        THEN [orders EXCEPT ![c].status = "Completed"]
                        ELSE orders
           /\ th' = [th EXCEPT ![t].pc = "add_event_on_order_change",
                               ![t].event_type = Some("OrderFilled"),
                               ![t].cloned_order = Some(deep_clone(orders'[c]))]
    /\ UNCHANGED << not_finished, events, is_derivative, handled >>

\* line 467: the clone that goes into the OrderFilled event
send_order_filled_event(t) ==
    /\ th[t].pc = "send_order_filled_event"
    /\ th' = [th EXCEPT ![t].pc = "add_event_on_order_change",
                        ![t].event_type = Some("OrderFilled"),
                        ![t].cloned_order =
                            Some(deep_clone(orders[Unwrap(th[t].order_ref)]))]
    /\ UNCHANGED << orders, not_finished, events, is_derivative, handled >>

\* <= in the place of ==
react_if_order_completed_le(t) ==
    /\ th[t].pc = "react_if_order_completed"
    /\ LET c == Unwrap(th[t].order_ref)
       IN  IF th[t].order_filled_amount <= orders[c].amount
           THEN /\ orders' = [orders EXCEPT ![c].status = "Completed"]
                /\ th' = [th EXCEPT ![t].pc = "react_if_order_completed_clone"]
           ELSE /\ orders' = orders
                /\ th' = [th EXCEPT ![t] = Return(t, Some("Added a fill"), None)]
    /\ UNCHANGED << not_finished, events, is_derivative, handled >>

\* lines 482-485: compare the filled amount read at line 646 with
\* header.amount and set the status
react_if_order_completed(t) ==
    /\ th[t].pc = "react_if_order_completed"
    /\ LET c == Unwrap(th[t].order_ref)
       IN  IF th[t].order_filled_amount = orders[c].amount
           THEN /\ orders' = [orders EXCEPT ![c].status = "Completed"]
                /\ th' = [th EXCEPT ![t].pc = "react_if_order_completed_clone"]
           ELSE /\ orders' = orders
                /\ th' = [th EXCEPT ![t] = Return(t, Some("Added a fill"), None)]
    /\ UNCHANGED << not_finished, events, is_derivative, handled >>

\* line 487: the clone that goes into the OrderCompleted event
react_if_order_completed_clone(t) ==
    /\ th[t].pc = "react_if_order_completed_clone"
    /\ th' = [th EXCEPT ![t].pc = "add_event_on_order_change",
                        ![t].event_type = Some("OrderCompleted"),
                        ![t].cloned_order =
                            Some(deep_clone(orders[Unwrap(th[t].order_ref)]))]
    /\ UNCHANGED << orders, not_finished, events, is_derivative, handled >>

\* the handling over once OrderFilled is sent
send_event_filled_only(t) ==
    /\ th[t].pc = "add_event_on_order_change"
    /\ add_event_on_order_change(orders, Unwrap(th[t].order_ref),
                                 Unwrap(th[t].event_type), Unwrap(th[t].cloned_order))
    /\ th' = [th EXCEPT ![t] = Return(t, Some("Added a fill"), None)]
    /\ UNCHANGED << is_derivative, handled >>

\* the add_event_on_order_change call of send_order_filled_event and of
\* react_if_order_completed
send_event(t) ==
    /\ th[t].pc = "add_event_on_order_change"
    /\ add_event_on_order_change(orders, Unwrap(th[t].order_ref),
                                 Unwrap(th[t].event_type), Unwrap(th[t].cloned_order))
    /\ th' = [th EXCEPT ![t] =
               IF th[t].event_type = Some("OrderFilled")
               THEN [@ EXCEPT !.pc = "react_if_order_completed",
                              !.event_type = None, !.cloned_order = None]
               ELSE Return(t, Some("Added a fill"), None)]
    /\ UNCHANGED << is_derivative, handled >>

HandlingStep(t) ==
    \/ guards(t)
    \/ panic_if_wrong_status_or_cancelled(t)
    \/ get_order_role(t)
    \/ add_fill(t)
    \/ panic_if_fill_amounts_comformity(t)
    \/ send_order_filled_event(t)
    \/ react_if_order_completed(t)
    \/ react_if_order_completed_clone(t)
    \/ send_event(t)


(***************************************************************************)
(* The order state machine (section 4.2): its transitions other than the   *)
(* completion by a fill                                                    *)
(***************************************************************************)
handle_create_order_succeeded(c) ==
    /\ orders[c].status = "Creating"
    /\ add_event_on_order_change([orders EXCEPT ![c].status = "Created"],
                                 c, "CreateOrderSucceeded", None)
    /\ UNCHANGED << is_derivative, th, handled >>

handle_create_order_failed(c) ==
    /\ orders[c].status = "Creating"
    /\ add_event_on_order_change([orders EXCEPT ![c].status = "FailedToCreate"],
                                 c, "CreateOrderFailed", None)
    /\ UNCHANGED << is_derivative, th, handled >>

handle_cancel_order_succeeded(c) ==
    /\ orders[c].status \notin TerminalStatuses
    /\ add_event_on_order_change([orders EXCEPT ![c].status = "Canceled"],
                                 c, "CancelOrderSucceeded", None)
    /\ UNCHANGED << is_derivative, th, handled >>

StateMachineStep ==
    \E c \in ClientOrderIds :
        \/ handle_create_order_succeeded(c)
        \/ handle_create_order_failed(c)
        \/ handle_cancel_order_succeeded(c)

(***************************************************************************)
(* Specifications                                                          *)
(***************************************************************************)
TotalAmounts(order_amount) ==
    IF order_amount = ScenarioAmount THEN {ScenarioAmount} ELSE 1..MaxAmount

AllIdle == \A t \in Threads : th[t].pc = "idle"

\* fill events are handled one after another by one task: the adapter calls
\* handle_order_filled_callback under its mutex (Binance::handle_trade), one
\* callback per message
Next ==
    \/ \E c \in ClientOrderIds :
         \E event_data \in FillEvents(orders[c].amount, {"Maker"},
                                      TotalAmounts(orders[c].amount)) :
            create_and_add_order_fill(1, c, event_data)
            /\ UNCHANGED << applied, ingress_vars, pool_vars, service_vars >>
    \/ (HandlingStep(1) /\ UNCHANGED << applied, ingress_vars, pool_vars, service_vars >>)
    \/ (AllIdle /\ StateMachineStep /\ UNCHANGED << applied, ingress_vars, pool_vars, service_vars >>)

Spec == Init /\ [][Next]_vars

\* a venue delivers one fill event carrying a trade_id twice (WebSocket and
\* REST fallback); the second delivery is handled after the first
first_delivery(c, event_data) ==
    /\ applied = None
    /\ IsSome(event_data.trade_id)
    /\ create_and_add_order_fill(1, c, event_data)
    /\ applied' = Some([order |-> c, event_data |-> event_data,
                        again |-> FALSE, panic |-> None])

second_delivery ==
    /\ IsSome(applied)
    /\ ~Unwrap(applied).again
    /\ create_and_add_order_fill(1, Unwrap(applied).order, Unwrap(applied).event_data)
    /\ applied' = Some([Unwrap(applied) EXCEPT !.again = TRUE,
                                               !.panic = th[1].panic])

NextTwice ==
    \/ \E c \in ClientOrderIds :
         \E event_data \in FillEvents(orders[c].amount, {"Maker"},
                                      TotalAmounts(orders[c].amount)) :
            first_delivery(c, event_data) /\ UNCHANGED << ingress_vars, pool_vars, service_vars >>
    \/ (second_delivery /\ UNCHANGED << ingress_vars, pool_vars, service_vars >>)
    \/ (HandlingStep(1) /\ UNCHANGED << applied, ingress_vars, pool_vars, service_vars >>)
    \/ (AllIdle /\ StateMachineStep /\ UNCHANGED << applied, ingress_vars, pool_vars, service_vars >>)

SpecTwice == Init /\ [][NextTwice]_vars

\* fill events of one order are handled by two tasks at a time (the WebSocket
\* handler and a REST fallback); the events are the reports of one trade, diff
\* or non-diff, and carry a role and an amount
FillEventsConc(order_amount) ==
    { event_data \in FillEvents(order_amount, {"Maker"}, {}) :
         /\ event_data.trade_id = Some("T1")
         /\ IsSome(event_data.order_role)
         /\ event_data.fill_price = 1
         /\ event_data.fill_amount > 0 }

NextConc ==
    \/ \E t \in Threads, c \in ClientOrderIds :
         \E event_data \in FillEventsConc(orders[c].amount) :
            create_and_add_order_fill(t, c, event_data)
            /\ UNCHANGED << applied, ingress_vars, pool_vars, service_vars >>
    \/ \E t \in Threads : HandlingStep(t) /\ UNCHANGED << applied, ingress_vars, pool_vars, service_vars >>
    \/ (StateMachineStep /\ UNCHANGED << applied, ingress_vars, pool_vars, service_vars >>)

SpecConc == Init /\ [][NextConc]_vars

\* the calls of OrdersPool, one after another
handling_vars == << orders, not_finished, events, is_derivative, th, handled,
                    applied >>

NoCall == \A t \in Threads : call[t].pc = "idle"

NextPool ==
    \/ \E id \in PoolIds, price \in Prices :
         NoCall /\ add_simple_initial(1, id, price)
                /\ UNCHANGED << handling_vars, ingress_vars, service_vars >>
    \/ \E id \in PoolIds, price \in Prices :
         NoCall /\ add_snapshot_initial(1, id, price)
                /\ UNCHANGED << handling_vars, ingress_vars, service_vars >>
    \/ (PoolStep(1) /\ UNCHANGED << handling_vars, ingress_vars, service_vars >>)

SpecPool == Init /\ [][NextPool]_vars

\* the calls of OrdersPool made by two tasks at a time
NextPoolConc ==
    \/ \E t \in Threads, id \in PoolIds, price \in Prices :
         add_simple_initial(t, id, price)
            /\ UNCHANGED << handling_vars, ingress_vars, service_vars >>
    \/ \E t \in Threads :
         PoolStep(t) /\ UNCHANGED << handling_vars, ingress_vars, service_vars >>

SpecPoolConc == Init /\ [][NextPoolConc]_vars

(***************************************************************************)
(* Exchange::handle_order_filled: the way of a fill event from the adapter *)
(* to create_and_add_order_fill                                            *)
(***************************************************************************)
EventSourceTypes == {"RestFallback", "Rest", "WebSocket"}
AllowedEventSourceTypes == {"All", "FallbackOnly", "NonFallback"}
OrderFillTypes == {"UserTrade", "Liquidation", "ClosePosition"}

\* the client_order_ids ClientOrderId::unique_id() hands out
UniqueIds == {"u1", "u2"}

\* the test of the WebSocket source left out
should_ignore_event_rest_only(allowed_event_source_type, source_type) ==
    \/ /\ allowed_event_source_type = "FallbackOnly"
       /\ source_type # "RestFallback"
    \/ /\ allowed_event_source_type = "NonFallback"
       /\ source_type # "Rest"

should_ignore_event(allowed_event_source_type, source_type) ==
    \/ /\ allowed_event_source_type = "FallbackOnly"
       /\ source_type # "RestFallback"
    \/ /\ allowed_event_source_type = "NonFallback"
       /\ source_type # "Rest"
       /\ source_type # "WebSocket"

\* FillEventData; the fields the fill pipeline reads are those of FillEvents
FillEventData(source_type, exchange_order_id, client_order_id, fill_type, trade_currency_pair, order_side, order_amount, trade_id, fill_price, fill_amount) ==
    [source_type |-> source_type,
     exchange_order_id |-> exchange_order_id,
     client_order_id |-> client_order_id,
     fill_type |-> fill_type,
     trade_currency_pair |-> trade_currency_pair,
     order_side |-> order_side,
     order_amount |-> order_amount,
     trade_id |-> Some(trade_id),
     fill_price |-> fill_price,
     fill_amount |-> fill_amount,
     is_diff |-> TRUE,
     total_filled_amount |-> None,
     commission_currency_code |-> None,
     commission_rate |-> None,
     commission_amount |-> None,
     order_role |-> None]

\* handle_order_filled takes the event in
handle_order_filled(t, event_data) ==
    /\ th[t].pc = "idle"
    /\ handled' = handled + 1
    /\ th' = [th EXCEPT ![t] = [IdleLocals EXCEPT !.pc = "should_ignore_event",
                                                  !.event_data = Some(event_data)]]
    /\ UNCHANGED << orders, not_finished, events, is_derivative, ingress_vars >>

\* the mandatory exchange_order_id tested before the source of the event
handle_order_filled_gate_field_first(t) ==
    /\ th[t].pc = "should_ignore_event"
    /\ LET event_data == Unwrap(th[t].event_data)
       IN  th' = [th EXCEPT ![t] =
                   IF event_data.exchange_order_id = ""
                   THEN Return(t, None,
                          Some("Received HandleOrderFilled with an empty exchangeOrderId"))
                   ELSE IF should_ignore_event(allowed_fill_event_source_type,
                                               event_data.source_type)
                   THEN Return(t, Some("Ignoring fill"), None)
                   ELSE [@ EXCEPT !.pc = "add_external_order"]]
    /\ UNCHANGED << orders, not_finished, events, is_derivative, handled, ingress_vars >>

\* lines 80-93: the gate on the source of the event, then the mandatory
\* exchange_order_id
handle_order_filled_gate(t) ==
    /\ th[t].pc = "should_ignore_event"
    /\ LET event_data == Unwrap(th[t].event_data)
       IN  th' = [th EXCEPT ![t] =
                   IF should_ignore_event(allowed_fill_event_source_type,
                                          event_data.source_type)
                   THEN Return(t, Some("Ignoring fill"), None)
                   ELSE IF event_data.exchange_order_id = ""
                   THEN Return(t, None,
                          Some("Received HandleOrderFilled with an empty exchangeOrderId"))
                   ELSE [@ EXCEPT !.pc = "add_external_order"]]
    /\ UNCHANGED << orders, not_finished, events, is_derivative, handled, ingress_vars >>

\* the panic of add_external_order for the event, None if it has none
add_external_order_panic(event_data) ==
    IF event_data.fill_type = "Liquidation" /\ event_data.trade_currency_pair = None
    THEN Some("Currency pair should be set for liquidation trade")
    ELSE IF event_data.order_side = None
    THEN Some("Side should be set for liquidation or close position trade")
    ELSE IF IsSome(event_data.client_order_id)
    THEN Some("Client order id cannot be set for liquidation or close position trade")
    ELSE IF event_data.order_amount = None
    THEN Some("Order amount should be set for liquidation or close position trade")
    ELSE None

\* add_external_order up to its lookup in cache_by_exchange_id
add_external_order(t) ==
    /\ th[t].pc = "add_external_order"
    /\ LET event_data == Unwrap(th[t].event_data)
           order_ref == cache_by_exchange_id[event_data.exchange_order_id]
       IN  th' = [th EXCEPT ![t] =
                   IF event_data.fill_type \notin {"Liquidation", "ClosePosition"}
                   THEN [@ EXCEPT !.pc = "get_order"]
                   ELSE IF IsSome(add_external_order_panic(event_data))
                   THEN Return(t, None, add_external_order_panic(event_data))
                   ELSE IF IsSome(order_ref)
                   THEN [@ EXCEPT !.pc = "get_order",
                                  !.event_data =
                                      Some([event_data EXCEPT !.client_order_id = order_ref])]
                   ELSE [@ EXCEPT !.pc = "create_order_in_pool"]]
    /\ UNCHANGED << orders, not_finished, events, is_derivative, handled, ingress_vars >>

\* OrderSnapshot::with_params as create_order_in_pool calls it
with_params(order_type, order_role, price, amount) ==
    [amount |-> amount, status |-> "Creating", role |-> order_role,
     was_cancellation_event_raised |-> FALSE, fills |-> << >>,
     filled_amount |-> 0, order_type |-> order_type, price |-> price,
     exchange_order_id |-> None]

\* fill_price and order_amount passed to with_params in each other's place
create_order_in_pool_swapped(t) ==
    /\ th[t].pc = "create_order_in_pool"
    /\ LET event_data == Unwrap(th[t].event_data)
       IN  IF event_data.trade_currency_pair = None
           THEN /\ th' = [th EXCEPT ![t] = Return(t, None,
                     Some("Impossible situation: currency pair are checked above already"))]
                /\ UNCHANGED << orders, not_finished >>
           ELSE \E client_order_id \in UniqueIds \ DOMAIN orders :
                  /\ orders' = orders @@
                       (client_order_id :>
                          with_params("Liquidation", Some("Taker"),
                                      Unwrap(event_data.order_amount), event_data.fill_price))
                  /\ not_finished' = not_finished \cup {client_order_id}
                  /\ th' = [th EXCEPT
                       ![t].pc = "handle_create_order_succeeded",
                       ![t].event_data =
                           Some([event_data EXCEPT !.client_order_id = Some(client_order_id)])]
    /\ UNCHANGED << events, is_derivative, handled, ingress_vars >>

\* create_order_in_pool: the order of an unknown liquidation or close
\* position trade is added to the pool under a fresh client_order_id
create_order_in_pool(t) ==
    /\ th[t].pc = "create_order_in_pool"
    /\ LET event_data == Unwrap(th[t].event_data)
       IN  IF event_data.trade_currency_pair = None
           THEN /\ th' = [th EXCEPT ![t] = Return(t, None,
                     Some("Impossible situation: currency pair are checked above already"))]
                /\ UNCHANGED << orders, not_finished >>
           ELSE \E client_order_id \in UniqueIds \ DOMAIN orders :
                  /\ orders' = orders @@
                       (client_order_id :>
                          with_params("Liquidation", Some("Taker"), event_data.fill_price,
                                      Unwrap(event_data.order_amount)))
                  /\ not_finished' = not_finished \cup {client_order_id}
                  /\ th' = [th EXCEPT
                       ![t].pc = "handle_create_order_succeeded",
                       ![t].event_data =
                           Some([event_data EXCEPT !.client_order_id = Some(client_order_id)])]
    /\ UNCHANGED << events, is_derivative, handled, ingress_vars >>

\* a report for an order that has left Creating is applied like the first
order_created_every_report(t, c, e, locals, rejected) ==
    /\ add_event_on_order_change([orders EXCEPT ![c].status = "Created",
                                                ![c].exchange_order_id = Some(e)],
                                 c, "CreateOrderSucceeded", None)
    /\ cache_by_exchange_id' = [cache_by_exchange_id EXCEPT ![e] = Some(c)]
    /\ buffered_fills' = [buffered_fills EXCEPT ![e] = << >>]
    /\ th' = [th EXCEPT ![t] = [locals EXCEPT !.pc = "drain",
                                              !.drain = buffered_fills[e]]]

\* Exchange::handle_create_order_succeeded (section 4.2, Creating -> Created,
\* and section 4.3, buffered drain) run by task t for order c and
\* exchange_order_id e; locals is what the task goes on with
order_created(t, c, e, locals, rejected) ==
    IF orders[c].status # "Creating"
    THEN \* a duplicate report is discarded
         /\ th' = [th EXCEPT ![t] = [locals EXCEPT !.pc = "drain"]]
         /\ UNCHANGED << orders, not_finished, events, cache_by_exchange_id,
                         buffered_fills >>
    ELSE IF IsSome(cache_by_exchange_id[e]) /\ cache_by_exchange_id[e] # Some(c)
    THEN \* bind_exchange_id rejects a conflicting rebind
         /\ th' = [th EXCEPT ![t] = rejected]
         /\ UNCHANGED << orders, not_finished, events, cache_by_exchange_id,
                         buffered_fills >>
    ELSE /\ add_event_on_order_change([orders EXCEPT ![c].status = "Created",
                                                     ![c].exchange_order_id = Some(e)],
                                      c, "CreateOrderSucceeded", None)
         /\ cache_by_exchange_id' = [cache_by_exchange_id EXCEPT ![e] = Some(c)]
         /\ buffered_fills' = [buffered_fills EXCEPT ![e] = << >>]
         /\ th' = [th EXCEPT ![t] = [locals EXCEPT !.pc = "drain",
                                                   !.drain = buffered_fills[e]]]

\* the call of handle_create_order_succeeded in handle_order_filled and in
\* add_external_order
handle_create_order_succeeded_called(t) ==
    /\ th[t].pc = "handle_create_order_succeeded"
    /\ LET event_data == Unwrap(th[t].event_data)
       IN  order_created(t, Unwrap(event_data.client_order_id),
                         event_data.exchange_order_id,
                         [th[t] EXCEPT !.resume = th[t].event_data,
                                       !.event_data = None],
                         [IdleLocals EXCEPT
                            !.panic = Some("Error handle create order succeeded")])
    /\ UNCHANGED << is_derivative, handled, allowed_fill_event_source_type >>

\* the adapter reports the creation of order c with exchange_order_id e
raise_order_created(t, c, e) ==
    /\ th[t].pc = "idle"
    /\ order_created(t, c, e, IdleLocals,
                     [IdleLocals EXCEPT !.log = Some("Error handle create order succeeded")])
    /\ UNCHANGED << is_derivative, handled, allowed_fill_event_source_type >>

\* the fill buffered last is applied first
drain_newest_first(t) ==
    /\ th[t].pc = "drain"
    /\ th' = [th EXCEPT ![t] =
               IF th[t].drain # << >>
               THEN LET event_data == th[t].drain[Len(th[t].drain)]
                        c == Unwrap(cache_by_exchange_id[event_data.exchange_order_id])
                    IN  [IdleLocals EXCEPT
                           !.pc = "guards",
                           !.order_ref = Some(c),
                           !.event_data = Some(event_data),
                           !.order_fills = orders[c].fills,
                           !.order_filled_amount = orders[c].filled_amount,
                           !.drain = SubSeq(th[t].drain, 1, Len(th[t].drain) - 1),
                           !.resume = th[t].resume,
                           !.expect_order = th[t].expect_order]
               ELSE IF IsSome(th[t].resume)
               THEN [IdleLocals EXCEPT !.pc = "get_order",
                                       !.event_data = th[t].resume,
                                       !.expect_order = th[t].expect_order]
               ELSE [IdleLocals EXCEPT !.log = th[t].log]]
    /\ UNCHANGED << orders, not_finished, events, is_derivative, handled, ingress_vars >>

\* the fills buffered for the exchange_order_id go through
\* create_and_add_order_fill, oldest first; then the caller goes on
drain(t) ==
    /\ th[t].pc = "drain"
    /\ th' = [th EXCEPT ![t] =
               IF th[t].drain # << >>
               THEN LET event_data == Head(th[t].drain)
                        c == Unwrap(cache_by_exchange_id[event_data.exchange_order_id])
                    IN  [IdleLocals EXCEPT
                           !.pc = "guards",
                           !.order_ref = Some(c),
                           !.event_data = Some(event_data),
                           !.order_fills = orders[c].fills,
                           !.order_filled_amount = orders[c].filled_amount,
                           !.drain = Tail(th[t].drain),
                           !.resume = th[t].resume,
                           !.expect_order = th[t].expect_order]
               ELSE IF IsSome(th[t].resume)
               THEN [IdleLocals EXCEPT !.pc = "get_order",
                                       !.event_data = th[t].resume,
                                       !.expect_order = th[t].expect_order]
               ELSE [IdleLocals EXCEPT !.log = th[t].log]]
    /\ UNCHANGED << orders, not_finished, events, is_derivative, handled, ingress_vars >>

\* the fill of an unknown order logged and not buffered
get_order_not_buffered(t) ==
    /\ th[t].pc = "get_order"
    /\ LET event_data == Unwrap(th[t].event_data)
           order_ref == cache_by_exchange_id[event_data.exchange_order_id]
       IN  th' = [th EXCEPT ![t] =
                   IF IsSome(order_ref)
                   THEN [IdleLocals EXCEPT
                           !.pc = "guards",
                           !.order_ref = order_ref,
                           !.event_data = th[t].event_data,
                           !.order_fills = orders[Unwrap(order_ref)].fills,
                           !.order_filled_amount = orders[Unwrap(order_ref)].filled_amount]
                   ELSE IF th[t].expect_order
                   THEN Return(t, None,
                          Some("Order should be inserted in orders.cache_by_exchange_id"))
                   ELSE IF IsSome(event_data.client_order_id)
                   THEN [@ EXCEPT !.pc = "handle_create_order_succeeded",
                                  !.expect_order = TRUE]
                   ELSE Return(t, Some("Received a fill for not existing order"), None)]
    /\ UNCHANGED << orders, not_finished, events, is_derivative, handled, ingress_vars >>

\* lines 97-133: the lookup of the order in cache_by_exchange_id
get_order(t) ==
    /\ th[t].pc = "get_order"
    /\ LET event_data == Unwrap(th[t].event_data)
           order_ref == cache_by_exchange_id[event_data.exchange_order_id]
       IN  th' = [th EXCEPT ![t] =
                   IF IsSome(order_ref)
                   THEN [IdleLocals EXCEPT
                           !.pc = "guards",
                           !.order_ref = order_ref,
                           !.event_data = th[t].event_data,
                           !.order_fills = orders[Unwrap(order_ref)].fills,
                           !.order_filled_amount = orders[Unwrap(order_ref)].filled_amount]
                   ELSE IF th[t].expect_order
                   THEN Return(t, None,
                          Some("Order should be inserted in orders.cache_by_exchange_id"))
                   ELSE IF IsSome(event_data.client_order_id)
                   THEN [@ EXCEPT !.pc = "handle_create_order_succeeded",
                                  !.expect_order = TRUE]
                   ELSE [@ EXCEPT !.pc = "buffered_fills_manager_add_fill"]]
    /\ UNCHANGED << orders, not_finished, events, is_derivative, handled, ingress_vars >>

\* BufferedFillsManager::add_fill (section 4.4): FIFO per exchange_order_id
add_fill_buffered(fills, event_data) == Append(fills, event_data)

\* lines 119-127: the fill of an order the pool does not know is buffered
buffered_fills_manager_add_fill(t) ==
    /\ th[t].pc = "buffered_fills_manager_add_fill"
    /\ LET event_data == Unwrap(th[t].event_data)
       IN  buffered_fills' = [buffered_fills EXCEPT ![event_data.exchange_order_id] =
                                 add_fill_buffered(@, event_data)]
    /\ th' = [th EXCEPT ![t] =
               Return(t, Some("Received a fill for not existing order"), None)]
    /\ UNCHANGED << orders, not_finished, events, is_derivative, handled,
                    cache_by_exchange_id, allowed_fill_event_source_type >>

IngressStep(t) ==
    \/ handle_order_filled_gate(t)
    \/ add_external_order(t)
    \/ create_order_in_pool(t)
    \/ handle_create_order_succeeded_called(t)
    \/ drain(t)
    \/ get_order(t)
    \/ buffered_fills_manager_add_fill(t)

\* the pool and the features of the exchange when the adapter starts to
\* deliver: the order c1 has been submitted and is not yet reported created
InitIngress ==
    /\ orders = [c \in ClientOrderIds |->
                   with_params("Limit", Some("Taker"), 1, MaxAmount)]
    /\ not_finished = ClientOrderIds
    /\ events = << >>
    /\ is_derivative = FALSE
    /\ th = [t \in Threads |-> IdleLocals]
    /\ handled = 0
    /\ applied = None
    /\ cache_by_exchange_id = [e \in ExchangeOrderIds |-> None]
    /\ buffered_fills = [e \in ExchangeOrderIds |-> << >>]
    /\ allowed_fill_event_source_type \in AllowedEventSourceTypes
    /\ pool = EmptyPool
    /\ call = [t \in Threads |-> IdleCall]
    /\ ServiceIdle

\* the events a venue delivers: every source and fill type, with and without
\* exchange_order_id; liquidation and close position trades with every
\* combination of the fields add_external_order asks for; user trades
GateEvents ==
    { FillEventData(source_type, e, None, fill_type, Some("pair"), Some("Buy"),
                    Some(MaxAmount), "T1", 1, 1) :
        source_type \in EventSourceTypes, e \in {""} \cup ExchangeOrderIds,
        fill_type \in OrderFillTypes }

ExternalOrderEvents ==
    { FillEventData("WebSocket", e, client_order_id, fill_type, trade_currency_pair,
                    order_side, order_amount, "T1", fill_price, fill_amount) :
        e \in ExchangeOrderIds,
        client_order_id \in {None} \cup { Some(c) : c \in ClientOrderIds },
        fill_type \in {"Liquidation", "ClosePosition"},
        trade_currency_pair \in {None, Some("pair")},
        order_side \in {None, Some("Buy")},
        order_amount \in {None, Some(MaxAmount)},
        fill_price \in Prices,
        fill_amount \in 0..1 }

UserTradeEvents ==
    { FillEventData("WebSocket", e, client_order_id, "UserTrade", None, None, None,
                    trade_id, 1, fill_amount) :
        e \in ExchangeOrderIds,
        client_order_id \in {None} \cup { Some(c) : c \in ClientOrderIds },
        trade_id \in TradeIds,
        fill_amount \in 0..MaxAmount }

\* history: the report that arrives, the order the pool holds for its
\* exchange_order_id and the fills buffered for it
Arrival(report, e, event_data) ==
    [report |-> report,
     event_data |-> event_data,
     exchange_order_id |-> e,
     order_ref |-> IF e \in ExchangeOrderIds THEN cache_by_exchange_id[e] ELSE None,
     buffered |-> IF e \in ExchangeOrderIds THEN buffered_fills[e] ELSE << >>]

IngressEvents == GateEvents \cup ExternalOrderEvents \cup UserTradeEvents

NextIngress ==
    \/ \E event_data \in IngressEvents :
         /\ handled < MaxDelivered
         /\ handle_order_filled(1, event_data)
         /\ applied' = Some(Arrival("handle_order_filled", event_data.exchange_order_id,
                                    Some(event_data)))
         /\ UNCHANGED << pool_vars, service_vars >>
    \/ \E c \in ClientOrderIds, e \in ExchangeOrderIds :
         /\ raise_order_created(1, c, e)
         /\ applied' = Some(Arrival("raise_order_created", e, None))
         /\ UNCHANGED << pool_vars, service_vars >>
    \/ (IngressStep(1) /\ UNCHANGED << applied, pool_vars, service_vars >>)
    \/ (HandlingStep(1) /\ UNCHANGED << applied, ingress_vars, pool_vars, service_vars >>)

SpecIngress == InitIngress /\ [][NextIngress]_vars

\* fill events of one exchange_order_id are handled by two tasks at a time
\* (the WebSocket handler and a REST fallback): well-formed trades of the
\* three fill types
IngressEventsConc ==
    { FillEventData(source_type, e, None, fill_type,
                    IF fill_type = "UserTrade" THEN None ELSE Some("pair"),
                    IF fill_type = "UserTrade" THEN None ELSE Some("Buy"),
                    IF fill_type = "UserTrade" THEN None ELSE Some(MaxAmount),
                    trade_id, 1, 1) :
        source_type \in {"WebSocket", "RestFallback"},
        e \in ExchangeOrderIds,
        fill_type \in OrderFillTypes,
        trade_id \in TradeIds }

NextIngressConc ==
    \/ \E t \in Threads, event_data \in IngressEventsConc :
         /\ handled < MaxHandled
         /\ handle_order_filled(t, event_data)
         /\ UNCHANGED << applied, pool_vars, service_vars >>
    \/ \E t \in Threads : IngressStep(t) /\ UNCHANGED << applied, pool_vars, service_vars >>
    \/ \E t \in Threads :
         HandlingStep(t) /\ UNCHANGED << applied, ingress_vars, pool_vars, service_vars >>

SpecIngressConc == InitIngress /\ [][NextIngressConc]_vars


(***************************************************************************)
(* Helpers of the properties                                               *)
(***************************************************************************)
\* the task t takes a step of its handling
Moves(t) == th'[t] # th[t]

\* the order the handling of task t is about
OrderOf(t) == Unwrap(th[t].order_ref)

\* the OrderFilled / OrderCompleted events of order c, in the order sent
FillEventsOf(c) ==
    SelectSeq(events, LAMBDA e : e.order = c
                                 /\ e.event_type \in {"OrderFilled", "OrderCompleted"})

EventTypes(evs) == [i \in 1..Len(evs) |-> evs[i].event_type]

OrderUnchanged == UNCHANGED << orders, not_finished, events >>

(***************************************************************************)
(* C1: in every reachable state of an order, also the one a handling that  *)
(* ended in a fatal error leaves behind, 0 <= filled_amount <=             *)
(* header.amount.                                                          *)
(***************************************************************************)
C1_FilledAmountWithinAmount ==
    \A c \in ClientOrderIds :
        /\ 0 <= orders[c].filled_amount
        /\ orders[c].filled_amount <= orders[c].amount

(***************************************************************************)
(* C2: the fills of an order never hold the same trade_id twice, and a     *)
(* fill event whose trade_id is the one of a fill of the ledger is dropped *)
(* by the guards: nothing of the order changes, no event is sent.          *)
(***************************************************************************)
NoDuplicateTradeId(fills) ==
    \A i, j \in 1..Len(fills) :
        (i < j /\ IsSome(fills[i].trade_id)) => fills[i].trade_id # fills[j].trade_id

C2_NoDuplicateTradeIds ==
    /\ [](\A c \in ClientOrderIds : NoDuplicateTradeId(orders[c].fills))
    /\ [][\A t \in Threads :
            ( /\ th[t].pc = "guards"
              /\ Moves(t)
              /\ IsSome(Unwrap(th[t].event_data).trade_id)
              /\ \E i \in 1..Len(orders[OrderOf(t)].fills) :
                    orders[OrderOf(t)].fills[i].trade_id = Unwrap(th[t].event_data).trade_id )
            => ( /\ th'[t].pc = "idle"
                 /\ th'[t].panic = None
                 /\ OrderUnchanged )]_vars

C2_Witness ==
    /\ th[1].log = Some("Trade was received already")
    /\ Len(orders["c1"].fills) = 1

(***************************************************************************)
(* C3: an order that fill processing has put in status Completed has       *)
(* filled_amount = header.amount, and an OrderFilled event of that order   *)
(* has been sent.                                                          *)
(***************************************************************************)
C3_CompletedIsFilled ==
    \A c \in ClientOrderIds :
        orders[c].status = "Completed" =>
            /\ orders[c].filled_amount = orders[c].amount
            /\ \E i \in 1..Len(events) :
                  events[i].order = c /\ events[i].event_type = "OrderFilled"

C3_Witness ==
    /\ orders["c1"].status = "Completed"
    /\ Len(orders["c1"].fills) = 2

(***************************************************************************)
(* C4: no fill is appended to an order that is FailedToCreate or Completed *)
(* or whose was_cancellation_event_raised is set; a fill event that has    *)
(* passed the guards a-f for such an order ends in a panic, and nothing of *)
(* the order changes and no event is sent.                                 *)
(***************************************************************************)
Closed(order) ==
    \/ order.status \in {"FailedToCreate", "Completed"}
    \/ order.was_cancellation_event_raised

HasNonDiffFill(fills) == \E i \in 1..Len(fills) : ~fills[i].is_diff

C5_DiffAfterNonDiffDropped ==
    [][\A t \in Threads :
         ( /\ th[t].pc = "guards"
           /\ Moves(t)
           /\ Unwrap(th[t].event_data).is_diff
           /\ HasNonDiffFill(orders[OrderOf(t)].fills) )
         => ( /\ th'[t].pc = "idle"
              /\ IsSome(th'[t].log)
              /\ th'[t].panic = None
              /\ OrderUnchanged )]_vars

C5_Witness ==
    /\ th[1].log = Some("Unable to process a diff fill after a non-diff one")
    /\ HasNonDiffFill(orders["c1"].fills)


(***************************************************************************)
(* C7: for the fill that brings filled_amount to header.amount exactly one *)
(* OrderFilled event and then exactly one OrderCompleted event are sent,   *)
(* in that order; two diff fills of 5 and 7 on an order of amount 12 give  *)
(* the events OrderFilled, OrderFilled, OrderCompleted.                    *)
(***************************************************************************)
C7_FilledThenCompleted ==
    \A c \in ClientOrderIds :
        LET sent == FillEventsOf(c)
            n == Len(sent)
            fills == orders[c].fills
        IN  /\ (AllIdle /\ orders[c].status = "Completed") =>
                /\ n >= 2
                /\ sent[n].event_type = "OrderCompleted"
                /\ sent[n].cloned_order.status = "Completed"
                /\ sent[n - 1].event_type = "OrderFilled"
                /\ sent[n - 1].cloned_order.fills = fills
                /\ sent[n - 1].cloned_order.status # "Completed"
                /\ \A i \in 1..(n - 2) :
                      /\ sent[i].event_type = "OrderFilled"
                      /\ sent[i].cloned_order.filled_amount < orders[c].amount
            /\ ( /\ AllIdle
                 /\ orders[c].amount = ScenarioAmount
                 /\ Len(fills) = 2
                 /\ fills[1].is_diff /\ fills[1].amount = 5
                 /\ fills[2].is_diff /\ fills[2].amount = 7 ) =>
                EventTypes(sent) = << "OrderFilled", "OrderFilled", "OrderCompleted" >>

C7_Witness ==
    /\ AllIdle
    /\ orders["c1"].amount = ScenarioAmount
    /\ orders["c1"].status = "Completed"
    /\ Len(orders["c1"].fills) = 2
    /\ orders["c1"].fills[1].is_diff /\ orders["c1"].fills[1].amount = 5
    /\ orders["c1"].fills[2].is_diff /\ orders["c1"].fills[2].amount = 7

(***************************************************************************)
(* C9: after any sequence of fill events handled for an order that starts  *)
(* with an empty ledger, filled_amount is the sum of the amounts of the    *)
(* fills of the ledger.                                                    *)
(***************************************************************************)
C9_FilledAmountIsSum ==
    \A c \in ClientOrderIds :
        orders[c].filled_amount = SumField(orders[c].fills, "amount")

C9_Witness ==
    /\ Len(orders["c1"].fills) = 2
    /\ orders["c1"].filled_amount = 3
    /\ orders["c1"].fills[2].amount = 2


(***************************************************************************)
(* C10: in a series of non-diff fill events on one order, an event whose   *)
(* cumulative cost is greater than the one of the event before is accepted *)
(* (a fill is appended); a non-diff event whose cumulative cost is not     *)
(* greater than the sum of the costs of the fills of the ledger is         *)
(* rejected, and the ledger stays as it is.                                *)
(*                                                                         *)
(* The events of the series are taken to be in order otherwise: a trade_id *)
(* not yet in the ledger, a total_filled_amount, if given, that is the     *)
(* event's fill_amount, an order that is not closed, a role known from the *)
(* event or the order.                                                     *)
(***************************************************************************)
AllNonDiff(fills) == \A i \in 1..Len(fills) : ~fills[i].is_diff

InNonDiffSeries(t) ==
    LET event_data == Unwrap(th[t].event_data)
        order == orders[OrderOf(t)]
    IN  /\ ~event_data.is_diff
        /\ AllNonDiff(order.fills)
        /\ \A i \in 1..Len(order.fills) : order.fills[i].trade_id # event_data.trade_id
        /\ event_data.total_filled_amount \in {None, Some(event_data.fill_amount)}
        /\ ~Closed(order)
        /\ IsSome(event_data.order_role) \/ IsSome(order.role)

CostIncreases(t) ==
    Cost(Unwrap(th[t].event_data).fill_amount, Unwrap(th[t].event_data).fill_price)
        > SumField(orders[OrderOf(t)].fills, "cost")

AmountIncreases(t) ==
    Unwrap(th[t].event_data).fill_amount > orders[OrderOf(t)].filled_amount

BeforeAddFill == {"guards", "panic_if_wrong_status_or_cancelled", "get_order_role"}

\* the handling of task t does not end before add_fill, and add_fill appends
Accepted(t) ==
    /\ th[t].pc \in BeforeAddFill => th'[t].pc \in BeforeAddFill \cup {"add_fill"}
    /\ th[t].pc = "add_fill" =>
          Len(orders'[OrderOf(t)].fills) = Len(orders[OrderOf(t)].fills) + 1

\* the handling of task t ends in the guards, nothing changes
Rejected(t) ==
    /\ th'[t].pc = "idle"
    /\ IsSome(th'[t].log)
    /\ th'[t].panic = None
    /\ OrderUnchanged

NonIncreasingCostRejected(t) ==
    ( /\ th[t].pc = "guards"
      /\ ~Unwrap(th[t].event_data).is_diff
      /\ ~CostIncreases(t) ) => Rejected(t)

\* the claim as it stands
C10_IncreasingCostAccepted ==
    [][\A t \in Threads :
         Moves(t) =>
            /\ ( /\ th[t].pc \in BeforeAddFill \cup {"add_fill"}
                 /\ InNonDiffSeries(t)
                 /\ CostIncreases(t) ) => Accepted(t)
            /\ NonIncreasingCostRejected(t)]_vars

\* the claim amended: the cumulative amount has to increase as well
C10_IncreasingCostAndAmountAccepted ==
    [][\A t \in Threads :
         Moves(t) =>
            /\ ( /\ th[t].pc \in BeforeAddFill \cup {"add_fill"}
                 /\ InNonDiffSeries(t)
                 /\ CostIncreases(t)
                 /\ AmountIncreases(t) ) => Accepted(t)
            /\ NonIncreasingCostRejected(t)]_vars

C10_Witness ==
    /\ th[1].log = Some("Added a fill")
    /\ Len(orders["c1"].fills) = 2
    /\ AllNonDiff(orders["c1"].fills)
    /\ orders["c1"].status # "Completed"


(***************************************************************************)
(* C6: a fill event that carries a trade_id, applied to an order a second  *)
(* time, leaves the order (fills, filled_amount, status) and the events    *)
(* sent as the first application left them; the second application is      *)
(* dropped without a fatal error, also when the first one completed the    *)
(* order.                                                                  *)
(***************************************************************************)
\* the step is one of the second application
OfSecondApplication == IsSome(applied') /\ Unwrap(applied').again /\ Moves(1)

\* the fill of the event delivered twice is in the ledger of its order
FirstAppended ==
    \E i \in 1..Len(orders[Unwrap(applied).order].fills) :
        orders[Unwrap(applied).order].fills[i].trade_id
            = Unwrap(applied).event_data.trade_id

\* the claim as it stands
C6_SecondApplicationDropped ==
    [][OfSecondApplication =>
          /\ OrderUnchanged
          /\ th'[1].pc = "idle" => IsSome(th'[1].log) /\ th'[1].panic = None]_vars

\* the claim amended: a first application that ended in a fatal error before
\* it appended is followed by a second one that ends in a fatal error as well
C6_SecondApplicationChangesNothing ==
    [][OfSecondApplication =>
          /\ OrderUnchanged
          /\ th'[1].pc = "idle" =>
                IF IsSome(Unwrap(applied').panic) /\ ~FirstAppended
                THEN IsSome(th'[1].panic)
                ELSE IsSome(th'[1].log) /\ th'[1].panic = None]_vars

C6_Witness ==
    /\ IsSome(applied)
    /\ Unwrap(applied).again
    /\ th[1].pc = "idle"
    /\ th[1].log = Some("Trade was received already")
    /\ orders["c1"].status = "Completed"
    /\ Len(orders["c1"].fills) = 1
    /\ Len(FillEventsOf("c1")) = 2


(***************************************************************************)
(* C8: two fill events of one order handled at the same time are processed *)
(* as if one after the other: between the snapshot read of a handling and  *)
(* its append no other handling appends to the order, and two events with  *)
(* the same trade_id delivered at the same time append one fill.           *)
(***************************************************************************)
C8_HandlingsSerialized ==
    /\ [](\A c \in ClientOrderIds : NoDuplicateTradeId(orders[c].fills))
    /\ [][\A t \in Threads :
            (th[t].pc = "add_fill" /\ Moves(t))
            => th[t].order_fills = orders[OrderOf(t)].fills]_vars


(***************************************************************************)
(* C14: a fill event rejected by one of the guards a-f (trade_id already   *)
(* in the ledger, diff after non-diff, non-diff amount not greater than    *)
(* filled_amount, cost_diff <= 0, last fill amount zero, filled_amount +   *)
(* last_fill_amount # total_filled_amount) returns normally, leaves fills, *)
(* filled_amount and status as they are and sends neither OrderFilled nor  *)
(* OrderCompleted.                                                         *)
(***************************************************************************)
\* the amount the event adds to the ledger of its order
LastFillAmountOf(event_data, order) ==
    IF ~event_data.is_diff /\ Len(order.fills) > 0
    THEN event_data.fill_amount - order.filled_amount
    ELSE event_data.fill_amount

RejectedByGuardsAToF(event_data, order) ==
    \/ /\ IsSome(event_data.trade_id)
       /\ \E i \in 1..Len(order.fills) : order.fills[i].trade_id = event_data.trade_id
    \/ event_data.is_diff /\ HasNonDiffFill(order.fills)
    \/ ~event_data.is_diff /\ event_data.fill_amount <= order.filled_amount
    \/ /\ ~event_data.is_diff
       /\ Len(order.fills) > 0
       /\ Cost(event_data.fill_amount, event_data.fill_price)
             <= SumField(order.fills, "cost")
    \/ LastFillAmountOf(event_data, order) = 0
    \/ /\ IsSome(event_data.total_filled_amount)
       /\ order.filled_amount + LastFillAmountOf(event_data, order)
             # Unwrap(event_data.total_filled_amount)

C14_RejectedEventChangesNothing ==
    [][\A t \in Threads :
         ( /\ th[t].pc = "guards"
           /\ Moves(t)
           /\ RejectedByGuardsAToF(Unwrap(th[t].event_data), orders[OrderOf(t)]) )
         => ( /\ th'[t].pc = "idle"
              /\ th'[t].panic = None
              /\ IsSome(th'[t].log)
              /\ orders' = orders
              /\ events' = events
              /\ not_finished' = not_finished )]_vars

C14_Witness ==
    /\ th[1].pc = "idle"
    /\ th[1].log = Some("Fill was missed")
    /\ Len(orders["c1"].fills) = 1
    /\ Len(FillEventsOf("c1")) = 1

(***************************************************************************)
(* C17: in every reachable state an order whose status is Canceled,        *)
(* Completed or FailedToCreate is not in the not_finished index of the     *)
(* pool, also between the status change of react_if_order_completed and    *)
(* the removal of add_event_on_order_change.                               *)
(***************************************************************************)
C17_TerminalNotInNotFinished ==
    \A c \in DOMAIN orders :
        orders[c].status \in TerminalStatuses => c \notin not_finished

(***************************************************************************)
(* C18: adding an order under a client_order_id the pool already holds is  *)
(* idempotent, for add_simple_initial and add_snapshot_initial alike: the  *)
(* call returns the handle the pool holds and the pooled snapshot is not   *)
(* replaced.                                                               *)
(***************************************************************************)
ReturnsFor(t, id) ==
    /\ call[t].pc # "idle"
    /\ call'[t].pc = "idle"
    /\ call'[t].client_order_id = Some(id)

C18_AddUnderExistingIdIsIdempotent ==
    [][\A id \in PoolIds :
         IsSome(pool.cache_by_client_id[id])
         => /\ pool'.cache_by_client_id[id] = pool.cache_by_client_id[id]
            /\ \A t \in Threads :
                 ReturnsFor(t, id) => call'[t].returned = pool.cache_by_client_id[id]]_vars

(***************************************************************************)
(* C19: for every interleaving of concurrent add_simple_initial calls with *)
(* one client_order_id, all callers receive handles to the same snapshot,  *)
(* and cache_by_client_id and not_finished map the id to that snapshot.    *)
(***************************************************************************)
C19_ConcurrentAddsShareOneSnapshot ==
    \A id \in PoolIds :
        ( /\ NoCall
          /\ \A t \in Threads : call[t].client_order_id = Some(id) )
        => \A t \in Threads :
             /\ call[t].returned = pool.cache_by_client_id[id]
             /\ call[t].returned = pool.not_finished[id]

(***************************************************************************)
(* C13: handle_order_filled drops a fill event exactly when the allowed    *)
(* source type is FallbackOnly and the event's source is not RestFallback, *)
(* or it is NonFallback and the source is neither Rest nor WebSocket; a    *)
(* dropped event leaves the pool, the buffered fills, the ledgers and the  *)
(* statuses as they are and no event is emitted.                           *)
(***************************************************************************)
Dropped(t) ==
    /\ th'[t].pc = "idle"
    /\ th'[t].log = Some("Ignoring fill")
    /\ th'[t].panic = None

IngressUnchanged ==
    UNCHANGED << orders, not_finished, events, cache_by_exchange_id, buffered_fills >>

C13_DroppedExactlyByAllowedSource ==
    [][\A t \in Threads :
         (th[t].pc = "should_ignore_event" /\ Moves(t))
         => LET source_type == Unwrap(th[t].event_data).source_type
                allowed == allowed_fill_event_source_type
            IN  /\ Dropped(t)
                   <=> \/ allowed = "FallbackOnly" /\ source_type # "RestFallback"
                       \/ allowed = "NonFallback" /\ source_type \notin {"Rest", "WebSocket"}
                /\ Dropped(t) => IngressUnchanged]_vars

C13_Witness ==
    /\ th[1].pc = "idle"
    /\ th[1].log = Some("Ignoring fill")
    /\ allowed_fill_event_source_type = "NonFallback"
    /\ Len(events) > 0

(***************************************************************************)
(* C15: a UserTrade fill event from an allowed source whose                *)
(* exchange_order_id matches no pooled order and which carries no          *)
(* client_id is appended to the buffered fills of that exchange_order_id,  *)
(* and nothing else happens: no order is created, no ledger changes, no    *)
(* event is emitted.                                                       *)
(***************************************************************************)
IngressPcs == {"should_ignore_event", "add_external_order", "get_order",
               "buffered_fills_manager_add_fill"}

AllowedSource(source_type) ==
    \/ allowed_fill_event_source_type = "All"
    \/ allowed_fill_event_source_type = "FallbackOnly" /\ source_type = "RestFallback"
    \/ allowed_fill_event_source_type = "NonFallback" /\ source_type \in {"Rest", "WebSocket"}

UserTradeOfUnknownOrder(t) ==
    /\ th[t].pc \in IngressPcs
    /\ LET event_data == Unwrap(th[t].event_data)
       IN  /\ event_data.fill_type = "UserTrade"
           /\ AllowedSource(event_data.source_type)
           /\ event_data.exchange_order_id \in ExchangeOrderIds
           /\ cache_by_exchange_id[event_data.exchange_order_id] = None
           /\ event_data.client_order_id = None

C15_UnknownUserTradeIsBuffered ==
    [][\A t \in Threads :
         (UserTradeOfUnknownOrder(t) /\ Moves(t))
         => LET event_data == Unwrap(th[t].event_data)
            IN  /\ UNCHANGED << orders, not_finished, events, cache_by_exchange_id >>
                /\ th'[t].panic = None
                /\ th'[t].pc = "idle" <=> th[t].pc = "buffered_fills_manager_add_fill"
                /\ IF th'[t].pc = "idle"
                   THEN buffered_fills' =
                          [buffered_fills EXCEPT ![event_data.exchange_order_id] =
                              Append(@, event_data)]
                   ELSE /\ UNCHANGED buffered_fills
                        /\ th'[t].pc \in IngressPcs
                        /\ th'[t].event_data = th[t].event_data]_vars

C15_Witness ==
    /\ th[1].pc = "idle"
    /\ th[1].log = Some("Received a fill for not existing order")
    /\ Len(buffered_fills["e1"]) = 2
    /\ cache_by_exchange_id["e1"] = None

(***************************************************************************)
(* C12: for a fill event of type Liquidation or ClosePosition a missing    *)
(* currency_pair, a missing side, a missing order_amount or a present      *)
(* client_id is each a fatal error, raised before any order is created,    *)
(* any fill is buffered or applied and any event is emitted, for both fill *)
(* types and whether the exchange_order_id is known to the pool or not.    *)
(***************************************************************************)
RequiredFieldsWrong(event_data) ==
    /\ event_data.fill_type \in {"Liquidation", "ClosePosition"}
    /\ \/ event_data.trade_currency_pair = None
       \/ event_data.order_side = None
       \/ event_data.order_amount = None
       \/ IsSome(event_data.client_order_id)

FatalError(t) ==
    /\ th'[t].pc = "idle"
    /\ IsSome(th'[t].panic)

C12_WrongFieldsAreFatal ==
    [][\A t \in Threads :
         ( /\ th[t].pc \in {"add_external_order", "create_order_in_pool"}
           /\ Moves(t)
           /\ RequiredFieldsWrong(Unwrap(th[t].event_data)) )
         => /\ IngressUnchanged
            /\ \/ FatalError(t)
               \/ /\ th[t].pc = "add_external_order"
                  /\ th'[t].pc = "create_order_in_pool"
                  /\ th'[t].event_data = th[t].event_data]_vars

(***************************************************************************)
(* C11: when a Liquidation fill event with currency_pair, side and         *)
(* order_amount set and no client_id arrives for an exchange_order_id      *)
(* unknown to the pool, after handling the pool contains exactly one order *)
(* bound to that exchange_order_id, with order_type Liquidation, role      *)
(* Taker, price equal to the event's fill_price, and exactly one fill.     *)
(***************************************************************************)
HandlingReturns(t) ==
    /\ th[t].pc # "idle"
    /\ th'[t].pc = "idle"

\* the event delivered last is a well-formed liquidation of an order the pool
\* did not know when it arrived
LiquidationOfUnknownOrder ==
    /\ IsSome(applied)
    /\ Unwrap(applied).report = "handle_order_filled"
    /\ Unwrap(applied).exchange_order_id \in ExchangeOrderIds
    /\ Unwrap(applied).order_ref = None
    /\ LET event_data == Unwrap(Unwrap(applied).event_data)
       IN  /\ event_data.fill_type = "Liquidation"
           /\ AllowedSource(event_data.source_type)
           /\ IsSome(event_data.trade_currency_pair)
           /\ IsSome(event_data.order_side)
           /\ IsSome(event_data.order_amount)
           /\ event_data.client_order_id = None

OrdersBoundTo(ords, e) ==
    { c \in DOMAIN ords : ords[c].exchange_order_id = Some(e) }

OneLiquidationOrderWithOneFill(ords, cache, e, event_data) ==
    \E c \in DOMAIN ords :
        /\ OrdersBoundTo(ords, e) = {c}
        /\ cache[e] = Some(c)
        /\ ords[c].order_type = "Liquidation"
        /\ ords[c].role = Some("Taker")
        /\ ords[c].price = event_data.fill_price
        /\ Len(ords[c].fills) = 1

C11_LiquidationSynthesizesOrderWithOneFill ==
    [][(HandlingReturns(1) /\ LiquidationOfUnknownOrder)
       => OneLiquidationOrderWithOneFill(orders', cache_by_exchange_id',
             Unwrap(applied).exchange_order_id,
             Unwrap(Unwrap(applied).event_data))]_vars

\* the same for an event whose fill the pipeline accepts and whose
\* exchange_order_id has no buffered fills: the one fill is the event's
AcceptableFirstFill(event_data) ==
    /\ event_data.fill_amount > 0
    /\ event_data.fill_amount <= Unwrap(event_data.order_amount)
    /\ \/ event_data.total_filled_amount = None
       \/ event_data.total_filled_amount = Some(event_data.fill_amount)

C11_AcceptedLiquidationSynthesizesOrderWithOneFill ==
    [][( /\ HandlingReturns(1)
         /\ LiquidationOfUnknownOrder
         /\ AcceptableFirstFill(Unwrap(Unwrap(applied).event_data))
         /\ Unwrap(applied).buffered = << >> )
       => LET e == Unwrap(applied).exchange_order_id
              event_data == Unwrap(Unwrap(applied).event_data)
          IN  /\ OneLiquidationOrderWithOneFill(orders', cache_by_exchange_id', e,
                                                event_data)
              /\ \A c \in OrdersBoundTo(orders', e) :
                   /\ orders'[c].fills[1].trade_id = event_data.trade_id
                   /\ orders'[c].fills[1].amount = event_data.fill_amount]_vars

C11_Witness ==
    /\ th[1].pc = "idle"
    /\ th[1].log = Some("Added a fill")
    /\ IsSome(applied)
    /\ Unwrap(applied).report = "handle_order_filled"
    /\ Unwrap(applied).order_ref = None
    /\ Unwrap(applied).buffered = << >>
    /\ Unwrap(Unwrap(applied).event_data).fill_type = "Liquidation"
    /\ Unwrap(Unwrap(applied).event_data).fill_price = 2
    /\ \E c \in UniqueIds \cap DOMAIN orders :
         /\ cache_by_exchange_id["e1"] = Some(c)
         /\ orders[c].price = 2
         /\ Len(orders[c].fills) = 1

(***************************************************************************)
(* C16: the fills buffered for an exchange_order_id before its order was   *)
(* registered are applied, after the order's successful order_created,     *)
(* through the same application pipeline and in their arrival order; a     *)
(* buffered fill that is rejected is skipped and the following ones are    *)
(* still applied.                                                          *)
(***************************************************************************)
\* the buffered events the guards a-f let through, in arrival order: those
\* with a positive amount whose trade_id no earlier accepted one carries
RECURSIVE AcceptedOf(_, _)
AcceptedOf(buffered, seen) ==
    IF buffered = << >> THEN << >>
    ELSE LET event_data == Head(buffered)
         IN  IF event_data.fill_amount = 0 \/ event_data.trade_id \in seen
             THEN AcceptedOf(Tail(buffered), seen)
             ELSE << event_data >>
                    \o AcceptedOf(Tail(buffered), seen \cup {event_data.trade_id})

\* the report delivered last registered an order for an exchange_order_id
\* that was not bound when it arrived
OrderRegistered ==
    /\ IsSome(applied)
    /\ Unwrap(applied).report = "raise_order_created"
    /\ Unwrap(applied).order_ref = None
    /\ IsSome(cache_by_exchange_id'[Unwrap(applied).exchange_order_id])

C16_BufferedFillsAppliedInArrivalOrder ==
    [][( /\ HandlingReturns(1)
         /\ th'[1].panic = None
         /\ OrderRegistered )
       => LET c == Unwrap(cache_by_exchange_id'[Unwrap(applied).exchange_order_id])
              accepted == AcceptedOf(Unwrap(applied).buffered, {})
          IN  /\ Len(orders'[c].fills) = Len(accepted)
              /\ \A i \in 1..Len(accepted) :
                   /\ orders'[c].fills[i].trade_id = accepted[i].trade_id
                   /\ orders'[c].fills[i].amount = accepted[i].fill_amount
              /\ Len(FillEventsOf(c)) >= Len(accepted)
              /\ buffered_fills'[Unwrap(applied).exchange_order_id] = << >>]_vars

C16_Witness ==
    /\ th[1].pc = "idle"
    /\ th[1].panic = None
    /\ IsSome(applied)
    /\ Unwrap(applied).report = "raise_order_created"
    /\ Len(Unwrap(applied).buffered) = 3
    /\ Unwrap(applied).buffered[2].fill_amount = 0
    /\ Unwrap(applied).buffered[1].trade_id # Unwrap(applied).buffered[3].trade_id
    /\ Len(orders["c1"].fills) = 2
    /\ orders["c1"].fills[1].trade_id = Unwrap(applied).buffered[1].trade_id
    /\ orders["c1"].fills[2].trade_id = Unwrap(applied).buffered[3].trade_id

(***************************************************************************)
(* C20: an exchange_order_id is bound to at most one order of a venue:     *)
(* when two Liquidation or ClosePosition fill events for one unknown       *)
(* exchange_order_id are handled concurrently, exactly one order is        *)
(* synthesized and both fills are applied to it.                           *)
(***************************************************************************)
\* the orders create_order_in_pool has added to the pool
SynthesizedOrders == { c \in DOMAIN orders : orders[c].order_type = "Liquidation" }

\* the venue of the specification has one exchange_order_id
C20_OneOrderSynthesizedPerExchangeOrderId ==
    Cardinality(SynthesizedOrders) <= Cardinality(ExchangeOrderIds)

(***************************************************************************)
(* C30: the ingress checks of handle_order_filled run in the order source  *)
(* gating, then mandatory field check: an event with an empty              *)
(* exchange_order_id from an allowed source is a fatal error that leaves   *)
(* pool and buffered fills unchanged, and the same event from a disallowed *)
(* source is silently dropped.                                             *)
(***************************************************************************)
C30_GatingBeforeMandatoryField ==
    [][\A t \in Threads :
         ( /\ th[t].pc = "should_ignore_event"
           /\ Moves(t)
           /\ Unwrap(th[t].event_data).exchange_order_id = "" )
         => /\ IngressUnchanged
            /\ IF AllowedSource(Unwrap(th[t].event_data).source_type)
               THEN /\ FatalError(t)
                    /\ th'[t].panic =
                         Some("Received HandleOrderFilled with an empty exchangeOrderId")
               ELSE Dropped(t)]_vars

C30_Witness ==
    /\ th[1].pc = "idle"
    /\ th[1].panic = Some("Received HandleOrderFilled with an empty exchangeOrderId")
    /\ allowed_fill_event_source_type = "FallbackOnly"
    /\ IsSome(applied)
    /\ Unwrap(applied).exchange_order_id = ""
    /\ Len(events) > 0

(***************************************************************************)
(* C29: an applied fill sets the order's status to Completed and emits     *)
(* OrderCompleted if and only if the post-fill filled_amount equals        *)
(* header.amount: every applied fill that reaches header.amount leaves the *)
(* order Completed, and a fill that leaves filled_amount below             *)
(* header.amount does not change the status.                               *)
(***************************************************************************)
AfterAddFill == {"panic_if_fill_amounts_comformity", "send_order_filled_event",
                 "add_event_on_order_change", "react_if_order_completed",
                 "react_if_order_completed_clone"}

LastEventIsCompleted(evs, c) ==
    /\ Len(evs) > 0
    /\ evs[Len(evs)].order = c
    /\ evs[Len(evs)].event_type = "OrderCompleted"
    /\ evs[Len(evs)].cloned_order.status = "Completed"

C29_CompletedIffFilledAmountIsAmount ==
    [][\A t \in Threads :
         (th[t].pc \in AfterAddFill /\ Moves(t))
         => LET c == OrderOf(t)
            IN  /\ orders'[c].status # orders[c].status
                   => /\ orders'[c].status = "Completed"
                      /\ orders[c].filled_amount = orders[c].amount
                /\ (th'[t].pc = "idle" /\ th'[t].panic = None)
                   => ( orders'[c].filled_amount = orders'[c].amount
                        <=> /\ orders'[c].status = "Completed"
                            /\ LastEventIsCompleted(events', c) )]_vars

C29_Witness ==
    /\ th[1].pc = "idle"
    /\ th[1].log = Some("Added a fill")
    /\ Len(orders["c1"].fills) = 2
    /\ orders["c1"].status = "Completed"
    /\ LastEventIsCompleted(events, "c1")
    /\ \E i \in 1..Len(events) :
         /\ events[i].event_type = "OrderFilled"
         /\ events[i].cloned_order.filled_amount < orders["c1"].amount
         /\ events[i].cloned_order.status = "Created"

(***************************************************************************)
(* The conversion of a commission paid in a third currency                 *)
(* (handle_order_filled.rs, update_commission_for_bnb_case).  An amount    *)
(* is a fraction num/den, so that a division keeps its value.              *)
(***************************************************************************)
CommissionAmounts == {1, 2}
Amount(num, den) == [num |-> num, den |-> den]
SameAmount(a, b) == a.num * b.den = b.num * a.den

\* the function: the two out parameters as it leaves them, or the panic
update_commission_for_bnb_case(commission_currency_code, commission_amount, converted_commission_amount, converted_commission_currency_code) ==
    LET unchanged == [converted_commission_amount |-> converted_commission_amount,
                      converted_commission_currency_code |-> converted_commission_currency_code,
                      log |-> None, panic |-> None]
        direct == order_book_top[from_codes(commission_currency_code, quote_currency_code)]
        inverse == order_book_top[from_codes(quote_currency_code, commission_currency_code)]
    IN  IF commission_currency_code = base_currency_code \/ commission_currency_code = quote_currency_code
        THEN unchanged
        ELSE IF IsSome(direct)
        THEN IF Unwrap(direct).bid = None
             THEN [unchanged EXCEPT !.panic = Some("There are no top bid in order book")]
             ELSE [unchanged EXCEPT
                     !.converted_commission_amount = Amount(commission_amount * Unwrap(Unwrap(direct).bid), 1),
                     !.converted_commission_currency_code = quote_currency_code]
        ELSE IF IsSome(inverse)
        THEN IF Unwrap(inverse).ask = None
             THEN [unchanged EXCEPT !.panic = Some("There are no top ask in order book")]
             ELSE [unchanged EXCEPT
                     !.converted_commission_amount = Amount(commission_amount, Unwrap(Unwrap(inverse).ask)),
                     !.converted_commission_currency_code = quote_currency_code]
        ELSE [unchanged EXCEPT !.log = Some("Top bids and asks do not exist")]

\* create_and_add_order_fill, lines 617-626: the converted commission starts
\* as the commission itself and the function is called on it
convert_commission(commission_currency_code, commission_amount) ==
    /\ bnb' = Some([commission_currency_code |-> commission_currency_code,
                    commission_amount |-> commission_amount,
                    result |-> update_commission_for_bnb_case(commission_currency_code, commission_amount, Amount(commission_amount, 1), commission_currency_code)])
    /\ UNCHANGED order_book_top

\* the pool and the exchange with no report in handling: the state the
\* other services of the engine start from
CoreIdle ==
    /\ orders = [c \in ClientOrderIds |->
                   with_params("Limit", Some("Taker"), 1, MaxAmount)]
    /\ not_finished = ClientOrderIds
    /\ events = << >>
    /\ is_derivative = FALSE
    /\ th = [t \in Threads |-> IdleLocals]
    /\ handled = 0
    /\ applied = None
    /\ cache_by_exchange_id = [e \in ExchangeOrderIds |-> None]
    /\ buffered_fills = [e \in ExchangeOrderIds |-> << >>]
    /\ allowed_fill_event_source_type = "All"
    /\ pool = EmptyPool
    /\ call = [t \in Threads |-> IdleCall]
core_vars == << handling_vars, ingress_vars, pool_vars >>

\* every top of book the market data can have left for the two pairs
InitBnb ==
    /\ CoreIdle
    /\ order_book_top \in [CurrencyPairs -> {None} \cup { Some(top) : top \in OrderBookTop }]
    /\ bnb = None
    /\ balance = BalanceIdle("NonDerivative")
    /\ EngineIdle
    /\ now = 0
    /\ LimiterIdle
    /\ TriggersIdle

NextBnb ==
    \E code \in CommissionCurrencyCodes, amount \in CommissionAmounts :
        convert_commission(code, amount) /\ UNCHANGED << core_vars, beside_bnb_vars >>

SpecBnb == InitBnb /\ [][NextBnb]_vars

HasBid(pair) == IsSome(order_book_top[pair]) /\ IsSome(Unwrap(order_book_top[pair]).bid)
HasAsk(pair) == IsSome(order_book_top[pair]) /\ IsSome(Unwrap(order_book_top[pair]).ask)
ThirdCurrency(code) == code # base_currency_code /\ code # quote_currency_code

\* C27: a commission in a currency that is neither base nor quote is always
\* converted without a failure: with a bid on top of (commission/quote) the
\* converted amount is commission * bid; otherwise with an ask on top of
\* (quote/commission) it is commission / ask; otherwise amount and currency
\* are the commission's own
C27_ConversionNeverFails ==
    (IsSome(bnb) /\ ThirdCurrency(Unwrap(bnb).commission_currency_code)) =>
        LET code == Unwrap(bnb).commission_currency_code
            commission == Unwrap(bnb).commission_amount
            result == Unwrap(bnb).result
            direct == from_codes(code, quote_currency_code)
            inverse == from_codes(quote_currency_code, code)
        IN  /\ result.panic = None
            /\ IF HasBid(direct)
               THEN SameAmount(result.converted_commission_amount,
                               Amount(commission * Unwrap(Unwrap(order_book_top[direct]).bid), 1))
               ELSE IF HasAsk(inverse)
               THEN SameAmount(result.converted_commission_amount,
                               Amount(commission, Unwrap(Unwrap(order_book_top[inverse]).ask)))
               ELSE /\ SameAmount(result.converted_commission_amount, Amount(commission, 1))
                    /\ result.converted_commission_currency_code = code

(***************************************************************************)
(* Fills reported as cumulative totals, with the commission the venue      *)
(* reports: an order of MaxCumulative units takes in its reports one after *)
(* another (binance.rs:329); applied keeps the report as it was delivered. *)
(***************************************************************************)
MaxCumulative == 3
CumulativeEvents ==
    [trade_id : {None},
     fill_price : Prices,
     fill_amount : 1..MaxCumulative,
     is_diff : BOOLEAN,
     total_filled_amount : {None},
     order_role : {None, Some("Maker")},
     commission_currency_code : {None},
     commission_rate : {None},
     commission_amount : {None, Some(1), Some(3)}]

InitCumulative ==
    /\ orders = [c \in ClientOrderIds |->
                   [amount |-> MaxCumulative, status |-> "Created",
                    role |-> Some("Taker"), was_cancellation_event_raised |-> FALSE,
                    fills |-> << >>, filled_amount |-> 0]]
    /\ not_finished = ClientOrderIds
    /\ events = << >>
    /\ is_derivative \in BOOLEAN
    /\ th = [t \in Threads |-> IdleLocals]
    /\ handled = 0
    /\ applied = None
    /\ cache_by_exchange_id = [e \in ExchangeOrderIds |-> None]
    /\ buffered_fills = [e \in ExchangeOrderIds |-> << >>]
    /\ allowed_fill_event_source_type = "All"
    /\ pool = EmptyPool
    /\ call = [t \in Threads |-> IdleCall]
    /\ ServiceIdle

NextCumulative ==
    \/ \E c \in ClientOrderIds, event_data \in CumulativeEvents :
         /\ create_and_add_order_fill(1, c, event_data)
         /\ applied' = Some(event_data)
         /\ UNCHANGED << ingress_vars, pool_vars, service_vars >>
    \/ (HandlingStep(1) /\ UNCHANGED << applied, ingress_vars, pool_vars, service_vars >>)

SpecCumulative == InitCumulative /\ [][NextCumulative]_vars

\* task t appends the fill of a cumulative report to a ledger that has fills
AppendsCumulativeFill(t) ==
    /\ th[t].pc = "add_fill"
    /\ Moves(t)
    /\ ~Unwrap(applied).is_diff
    /\ Len(orders[OrderOf(t)].fills) > 0
LastFill(order) == order.fills[Len(order.fills)]
AmountDiff(t) == Unwrap(applied).fill_amount - orders[OrderOf(t)].filled_amount
CostDiff(t) ==
    Cost(Unwrap(applied).fill_amount, Unwrap(applied).fill_price)
      - SumField(orders[OrderOf(t)].fills, "cost")
\* amount, cost, commission and filled_amount as the report's totals less
\* what the ledger held
DiffsOfTotals(t) ==
    LET fill == LastFill(orders'[OrderOf(t)]) IN
    /\ Len(orders'[OrderOf(t)].fills) = Len(orders[OrderOf(t)].fills) + 1
    /\ fill.amount = AmountDiff(t)
    /\ fill.cost = CostDiff(t)
    /\ IsSome(Unwrap(applied).commission_amount)
         => fill.commission_amount =
               Unwrap(Unwrap(applied).commission_amount)
                 - SumField(orders[OrderOf(t)].fills, "commission_amount")
    /\ orders'[OrderOf(t)].filled_amount = Unwrap(applied).fill_amount
\* 2 * |a - b| <= c
Nearest(a, b, c) == 2 * (a - b) <= c /\ 2 * (b - a) <= c

\* C28 as stated: the fill appended for an accepted non-first cumulative
\* report has the amount, cost and commission of the report less those of
\* the ledger, the price cost_diff / amount_diff (amount_diff / cost_diff
\* for a derivative), and filled_amount becomes the report's fill_amount
C28_CumulativeFillIsDiffOfTotals ==
    [][\A t \in Threads : AppendsCumulativeFill(t) =>
          /\ DiffsOfTotals(t)
          /\ IF ~is_derivative
             THEN LastFill(orders'[OrderOf(t)]).price * AmountDiff(t) = CostDiff(t)
             ELSE LastFill(orders'[OrderOf(t)]).price * CostDiff(t) = AmountDiff(t) * CostScale]_vars

\* C28 amended: as above, the price being that quotient rounded to the
\* nearest price tick
C28_CumulativeFillIsDiffOfTotalsRounded ==
    [][\A t \in Threads : AppendsCumulativeFill(t) =>
          /\ DiffsOfTotals(t)
          /\ IF ~is_derivative
             THEN Nearest(LastFill(orders'[OrderOf(t)]).price * AmountDiff(t), CostDiff(t), AmountDiff(t))
             ELSE Nearest(LastFill(orders'[OrderOf(t)]).price * CostDiff(t), AmountDiff(t) * CostScale, CostDiff(t))]_vars

\* a second cumulative report with a commission has been applied, and the
\* price of its fill is not the exact quotient
C28_Witness ==
    /\ th[1].pc = "idle"
    /\ th[1].log = Some("Added a fill")
    /\ IsSome(applied)
    /\ ~Unwrap(applied).is_diff
    /\ IsSome(Unwrap(applied).commission_amount)
    /\ Len(orders["c1"].fills) = 2
    /\ orders["c1"].fills[2].amount = 2
    /\ orders["c1"].fills[2].price * 2 # orders["c1"].fills[2].cost
    /\ ~is_derivative
    /\ orders["c1"].filled_amount = Unwrap(applied).fill_amount

(***************************************************************************)
(* Creation reported by more than one source                               *)
(***************************************************************************)
\* task t takes in a creation report of the adapter
RaisesOrderCreated(t) ==
    /\ th[t].pc = "idle"
    /\ Moves(t)
    /\ IsSome(applied')
    /\ Unwrap(applied').report = "raise_order_created"
    /\ \/ th'[t].pc = "drain"
       \/ th'[t].log = Some("Error handle create order succeeded")
CreateOrderSucceededOf(evs, c) ==
    { i \in 1..Len(evs) : evs[i].order = c /\ evs[i].event_type = "CreateOrderSucceeded" }

\* C26: of the reports of the creation of one order the first wins:
\* CreateOrderSucceeded is sent once per order, and a creation report that
\* arrives for an exchange_order_id already bound changes neither an order
\* nor the binding and sends nothing
C26_FirstCreationReportWins ==
    [][/\ \A c \in DOMAIN orders' : Cardinality(CreateOrderSucceededOf(events', c)) <= 1
       /\ \A t \in Threads :
            (RaisesOrderCreated(t) /\ IsSome(Unwrap(applied').order_ref))
              => UNCHANGED << orders, not_finished, events, cache_by_exchange_id >>]_vars

\* a creation report has arrived for an order already reported created
C26_Witness ==
    /\ th[1].pc = "drain"
    /\ IsSome(applied)
    /\ Unwrap(applied).report = "raise_order_created"
    /\ Unwrap(applied).order_ref = Some("c1")
    /\ orders["c1"].status = "Created"
    /\ orders["c1"].exchange_order_id = Some("e1")
    /\ Cardinality(CreateOrderSucceededOf(events, "c1")) = 1

(***************************************************************************)
(* Exchange::get_balance (exchange.rs): up to five attempts, each a        *)
(* reservation at the timeout manager and one or two requests.  What the   *)
(* venue answers is the environment's choice.  returned is None while the  *)
(* call runs, Some(None) or Some(Some(result)) once it has returned.       *)
(***************************************************************************)
MaxAttempts == 5

\* a derivative position: whether its symbol is known to the exchange, its side
DerivativePositions == [known : BOOLEAN, side : {None, Some("Buy")}]
PositionLists == {<< >>} \cup { << p >> : p \in DerivativePositions } \cup { << p, q >> : p, q \in DerivativePositions }
ExchangeBalancesAndPositions ==
    [balances : {<< >>, << "balance" >>},
     positions : {None} \cup { Some(ps) : ps \in PositionLists }]

\* anyhow::Result: Ok(value), or Err with the kind of the error
Ok(value) == [ok |-> TRUE, value |-> value]
Err(error) == [ok |-> FALSE, error |-> error]
Results(values) == {Err("request failed")} \cup { Ok(value) : value \in values }

\* the loop goes on: after the fifth attempt the call returns None
next_attempt(b, outcome) ==
    IF b.retry_attempt = MaxAttempts
    THEN [b EXCEPT !.pc = "done", !.outcomes = Append(@, outcome),
                   !.balances_result = None, !.returned = Some(None)]
    ELSE [b EXCEPT !.pc = "reserve_when_available", !.outcomes = Append(@, outcome),
                   !.balances_result = None, !.retry_attempt = @ + 1]

\* the positions left as the venue sent them
remove_unknown_currency_pairs_kept(positions, balances) == [balances |-> balances, positions |-> positions]

\* lines 621-638: the positions of symbols the exchange does not know go
remove_unknown_currency_pairs(positions, balances) ==
    [balances |-> balances,
     positions |-> IF positions = None THEN None
                   ELSE Some(SelectSeq(Unwrap(positions), LAMBDA y : y.known))]

\* the LiquidationPrice events of handle_balances_and_positions for the
\* positions from the i-th on, up to a position without side
RECURSIVE liquidation_prices(_, _)
liquidation_prices(positions, i) ==
    IF i > Len(positions) \/ positions[i].side = None THEN << >>
    ELSE (IF positions[i].known THEN << [event |-> "LiquidationPrice", position |-> positions[i]] >>
          ELSE << >>) \o liquidation_prices(positions, i + 1)

\* lines 640-660: BalanceUpdate is sent, then a LiquidationPrice per position
handle_balances_and_positions(b, balances_and_positions) ==
    LET positions == IF balances_and_positions.positions = None THEN << >>
                     ELSE Unwrap(balances_and_positions.positions)
        sent == << [event |-> "BalanceUpdate", balances_and_positions |-> balances_and_positions] >>
                  \o liquidation_prices(positions, 1)
    IN  IF \E i \in 1..Len(positions) : positions[i].side = None
        THEN [b EXCEPT !.pc = "done", !.outcomes = Append(@, "ok"), !.sent = @ \o sent,
                       !.balances_result = None,
                       !.panic = Some("position_info.side is None")]
        ELSE [b EXCEPT !.pc = "done", !.outcomes = Append(@, "ok"), !.sent = @ \o sent,
                       !.balances_result = None,
                       !.returned = Some(Some(balances_and_positions))]

\* lines 681-697: the match on what get_balance_and_positions returned
match_balances_and_positions(b, result) ==
    IF ~result.ok THEN next_attempt(b, result.error)
    ELSE IF result.value.balances = << >> THEN next_attempt(b, "empty")
    ELSE handle_balances_and_positions(b,
             remove_unknown_currency_pairs(result.value.positions, result.value.balances))

\* lines 662-676: the call, the first turn of the loop
get_balance(option) ==
    /\ balance.pc = "idle"
    /\ balance' = [BalanceIdle(option) EXCEPT !.pc = "reserve_when_available",
                                              !.retry_attempt = 1]

\* lines 544-551: the reservation of a GetBalance request; a refused
\* reservation is the error of the attempt
reserve_when_available(reserved) ==
    /\ balance.pc = "reserve_when_available"
    /\ balance' = IF ~reserved THEN match_balances_and_positions(balance, Err("reservation refused"))
                  ELSE IF balance.option = "SingleRequest"
                  THEN [balance EXCEPT !.pc = "get_balance_and_positions_core"]
                  ELSE [balance EXCEPT !.pc = "get_balance_core"]

\* lines 536-538 and 554-561: ExchangeClient::get_balance answers
get_balance_core(response) ==
    /\ balance.pc = "get_balance_core"
    /\ balance' =
         IF balance.option = "NonDerivative" \/ ~response.ok
         THEN match_balances_and_positions(balance, response)
         ELSE IF response.value.positions # None
         THEN match_balances_and_positions(balance,
                  Err("Exchange supports SingleRequest but Individual is used"))
         ELSE [balance EXCEPT !.pc = "reserve_positions",
                              !.balances_result = Some(response.value)]

\* lines 601-617: request_get_balance_and_position answers: the request
\* fails, or its answer carries a REST error code (is_rest_error_code), or
\* it is parsed
get_balance_and_positions_core(response, error_code) ==
    /\ balance.pc = "get_balance_and_positions_core"
    /\ balance' =
         IF ~response.ok
         THEN [balance EXCEPT !.pc = "done", !.outcomes = Append(@, "failed"),
                              !.panic = Some("request_close_position failed.")]
         ELSE IF error_code
         THEN match_balances_and_positions(balance, Err("rest error code"))
         ELSE match_balances_and_positions(balance, response)

\* lines 563-570: the reservation of a GetActivePositions request
reserve_positions(reserved) ==
    /\ balance.pc = "reserve_positions"
    /\ balance' = IF ~reserved THEN match_balances_and_positions(balance, Err("reservation refused"))
                  ELSE [balance EXCEPT !.pc = "get_active_positions_core"]

\* lines 518-533 and 572-583: request_get_position answers with positions
get_active_positions_core(response, error_code) ==
    /\ balance.pc = "get_active_positions_core"
    /\ balance' =
         IF ~response.ok
         THEN [balance EXCEPT !.pc = "done", !.outcomes = Append(@, "failed"),
                              !.balances_result = None,
                              !.panic = Some("request_close_position failed.")]
         ELSE IF error_code
         THEN match_balances_and_positions(balance, Err("rest error code"))
         ELSE match_balances_and_positions(balance,
                  Ok([balances |-> Unwrap(balance.balances_result).balances,
                      positions |-> Some(response.value)]))

InitBalance ==
    /\ CoreIdle
    /\ BnbIdle
    /\ EngineIdle
    /\ now = 0
    /\ LimiterIdle
    /\ TriggersIdle
    /\ balance \in { BalanceIdle(option) : option \in BalancePositionOptions }

NextBalance ==
    \/ \E option \in BalancePositionOptions :
         get_balance(option) /\ UNCHANGED << core_vars, beside_balance_vars >>
    \/ \E reserved \in BOOLEAN :
         reserve_when_available(reserved) /\ UNCHANGED << core_vars, beside_balance_vars >>
    \/ \E response \in Results(ExchangeBalancesAndPositions) :
         get_balance_core(response) /\ UNCHANGED << core_vars, beside_balance_vars >>
    \/ \E response \in Results(ExchangeBalancesAndPositions), error_code \in BOOLEAN :
         get_balance_and_positions_core(response, error_code) /\ UNCHANGED << core_vars, beside_balance_vars >>
    \/ \E reserved \in BOOLEAN :
         reserve_positions(reserved) /\ UNCHANGED << core_vars, beside_balance_vars >>
    \/ \E response \in Results(PositionLists), error_code \in BOOLEAN :
         get_active_positions_core(response, error_code) /\ UNCHANGED << core_vars, beside_balance_vars >>

SpecBalance == InitBalance /\ [][NextBalance]_vars

LastOutcome == balance.outcomes[Len(balance.outcomes)]
ReturnedSome == IsSome(balance.returned) /\ IsSome(Unwrap(balance.returned))
ReturnedNone == balance.returned = Some(None)
\* the attempts, their number and what the call returned fit together
AttemptsAndReturn ==
    /\ Len(balance.outcomes) <= MaxAttempts
    /\ \A i \in 1..(Len(balance.outcomes) - 1) : balance.outcomes[i] # "ok"
    /\ ReturnedSome => (balance.pc = "done" /\ LastOutcome = "ok")
    /\ ReturnedNone => /\ balance.pc = "done"
                       /\ Len(balance.outcomes) = MaxAttempts
                       /\ \A i \in 1..MaxAttempts : balance.outcomes[i] # "ok"

\* C23: get_balance makes at most five attempts and returns: Some at the
\* first attempt whose requests succeed with balances that are not empty,
\* and None, with no further request, after five attempts that failed or
\* brought empty balances
C23_FiveAttemptsThenNone ==
    /\ AttemptsAndReturn
    /\ balance.panic = None
    /\ (balance.outcomes # << >> /\ LastOutcome = "ok") => ReturnedSome
    /\ Len(balance.outcomes) = MaxAttempts => (ReturnedSome \/ ReturnedNone)

(***************************************************************************)
(* EngineContext::graceful (trading_engine.rs), one action per call it     *)
(* makes or awaits.  The futures of cancel_opened_orders advance on their  *)
(* own while the select! of graceful is pending, and so does the time of   *)
(* its sleep, in seconds.                                                  *)
(***************************************************************************)
TIMEOUT == 5
ActionsAfterGracefulShutdown == {"Nothing", "Restart"}

\* a call that goes on whatever is_graceful_shutdown_started holds
graceful_called_unguarded(t, action) ==
    /\ graceful[t].pc = "idle"
    /\ graceful' = [graceful EXCEPT ![t] = [pc |-> "block", action |-> Some(action)]]
    /\ engine' = [engine EXCEPT !.is_graceful_shutdown_started = TRUE]

\* lines 94-100: the first caller goes on, every other one returns
graceful_called(t, action) ==
    /\ graceful[t].pc = "idle"
    /\ IF engine.is_graceful_shutdown_started
       THEN /\ graceful' = [graceful EXCEPT ![t] = [pc |-> "returned", action |-> Some(action)]]
            /\ UNCHANGED engine
       ELSE /\ graceful' = [graceful EXCEPT ![t] = [pc |-> "block", action |-> Some(action)]]
            /\ engine' = [engine EXCEPT !.is_graceful_shutdown_started = TRUE]

\* a block that leaves the exchanges as they are
block_none(t) ==
    /\ graceful[t].pc = "block"
    /\ graceful' = [graceful EXCEPT ![t].pc = "stop_token"]
    /\ UNCHANGED engine

\* lines 104-110
block(t) ==
    /\ graceful[t].pc = "block"
    /\ graceful' = [graceful EXCEPT ![t].pc = "stop_token"]
    /\ engine' = [engine EXCEPT !.blocked = Exchanges]

\* line 112
stop_token_cancel(t) ==
    /\ graceful[t].pc = "stop_token"
    /\ graceful' = [graceful EXCEPT ![t].pc = "user_lvl_shutdown"]
    /\ engine' = [engine EXCEPT !.stop_token = TRUE]

\* line 114
user_lvl_shutdown(t) ==
    /\ graceful[t].pc = "user_lvl_shutdown"
    /\ graceful' = [graceful EXCEPT ![t].pc = "stop_blocker"]
    /\ engine' = [engine EXCEPT !.user_lvl_shutdown = TRUE]

\* line 115
stop_blocker(t) ==
    /\ graceful[t].pc = "stop_blocker"
    /\ graceful' = [graceful EXCEPT ![t].pc = "cancel_opened_orders"]
    /\ engine' = [engine EXCEPT !.stop_blocker = TRUE]

\* lines 117-121 and 159-170: the select! polls cancel_opened_orders, which
\* starts Exchange::cancel_opened_orders of every exchange, and the sleep
cancel_opened_orders(t) ==
    /\ graceful[t].pc = "cancel_opened_orders"
    /\ graceful' = [graceful EXCEPT ![t].pc = "select"]
    /\ engine' = [engine EXCEPT !.select = "pending", !.elapsed = 0,
                                !.cancelling = [x \in Exchanges |-> "get_open_orders"]]

\* exchange.rs:391-398: get_open_orders answers
get_open_orders(x, ok) ==
    /\ engine.select = "pending"
    /\ engine.cancelling[x] = "get_open_orders"
    /\ engine' = [engine EXCEPT !.cancelling[x] = IF ok THEN "cancel_orders" ELSE "finished"]
    /\ UNCHANGED graceful

\* exchange.rs:399-413: cancel_orders is over, or the token was cancelled
cancel_orders(x) ==
    /\ engine.select = "pending"
    /\ engine.cancelling[x] = "cancel_orders"
    /\ engine' = [engine EXCEPT !.cancelling[x] =
                     IF engine.cancellation_token THEN "interrupted" ELSE "finished"]
    /\ UNCHANGED graceful

\* a second of the sleep goes by
sleep(t) ==
    /\ graceful[t].pc = "select"
    /\ engine.elapsed < TIMEOUT
    /\ engine' = [engine EXCEPT !.elapsed = @ + 1]
    /\ UNCHANGED graceful

\* line 121: the join_all of cancel_opened_orders is over
select_cancel_opened_orders(t) ==
    /\ graceful[t].pc = "select"
    /\ \A x \in Exchanges : engine.cancelling[x] \in {"finished", "interrupted"}
    /\ graceful' = [graceful EXCEPT ![t].pc = "core_lvl_shutdown"]
    /\ engine' = [engine EXCEPT !.select = "finished"]

\* the sleep is over and the token is left as it was
select_sleep_token_kept(t) ==
    /\ graceful[t].pc = "select"
    /\ engine.elapsed = TIMEOUT
    /\ graceful' = [graceful EXCEPT ![t].pc = "core_lvl_shutdown"]
    /\ engine' = [engine EXCEPT
         !.select = "timeout",
         !.cancelling = [x \in Exchanges |->
                           IF @[x] \in {"finished", "interrupted"} THEN @[x] ELSE "dropped"]]

\* lines 122-128: the sleep is over; the other future is dropped, then the
\* token is cancelled
select_sleep(t) ==
    /\ graceful[t].pc = "select"
    /\ engine.elapsed = TIMEOUT
    /\ graceful' = [graceful EXCEPT ![t].pc = "core_lvl_shutdown"]
    /\ engine' = [engine EXCEPT
         !.select = "timeout",
         !.cancellation_token = TRUE,
         !.cancelling = [x \in Exchanges |->
                           IF @[x] \in {"finished", "interrupted"} THEN @[x] ELSE "dropped"]]

\* line 131
core_lvl_shutdown(t) ==
    /\ graceful[t].pc = "core_lvl_shutdown"
    /\ graceful' = [graceful EXCEPT ![t].pc = "disconnect"]
    /\ engine' = [engine EXCEPT !.core_lvl_shutdown = TRUE]

\* lines 133-136 and exchange.rs:300-302: one of the disconnects is over
disconnect(t, x) ==
    /\ graceful[t].pc = "disconnect"
    /\ x \notin engine.disconnected
    /\ engine' = [engine EXCEPT !.disconnected = @ \cup {x}]
    /\ UNCHANGED graceful

\* line 137
join_all_disconnect(t) ==
    /\ graceful[t].pc = "disconnect"
    /\ engine.disconnected = Exchanges
    /\ graceful' = [graceful EXCEPT ![t].pc = "finish_graceful_shutdown_sender"]
    /\ UNCHANGED engine

\* lines 139-143
send_finish(t) ==
    /\ graceful[t].pc = "finish_graceful_shutdown_sender"
    /\ IF engine.finish_graceful_shutdown_sender = None
       THEN /\ graceful' = [graceful EXCEPT ![t].pc = "panic"]
            /\ UNCHANGED engine
       ELSE /\ graceful' = [graceful EXCEPT ![t].pc = "unset_lifetime_manager"]
            /\ engine' = [engine EXCEPT !.finish_graceful_shutdown_sender = None,
                                        !.finished = graceful[t].action]

\* lines 145-151
unset_lifetime_manager(t) ==
    /\ graceful[t].pc = "unset_lifetime_manager"
    /\ graceful' = [graceful EXCEPT ![t].pc = "returned"]
    /\ engine' = [engine EXCEPT
         !.futures_cancellation_token = (@ \/ graceful[t].action = Some("Restart")),
         !.lifetime_manager = FALSE]

GracefulStep(t) ==
    \/ block(t)
    \/ stop_token_cancel(t)
    \/ user_lvl_shutdown(t)
    \/ stop_blocker(t)
    \/ cancel_opened_orders(t)
    \/ select_cancel_opened_orders(t)
    \/ select_sleep(t)
    \/ core_lvl_shutdown(t)
    \/ \E x \in Exchanges : disconnect(t, x)
    \/ join_all_disconnect(t)
    \/ send_finish(t)
    \/ unset_lifetime_manager(t)

InitGraceful ==
    /\ CoreIdle
    /\ BnbIdle
    /\ balance = BalanceIdle("NonDerivative")
    /\ EngineIdle
    /\ now = 0
    /\ LimiterIdle
    /\ TriggersIdle

NextGraceful ==
    \/ \E t \in Threads, action \in ActionsAfterGracefulShutdown :
         graceful_called(t, action) /\ UNCHANGED << core_vars, beside_graceful_vars >>
    \/ \E t \in Threads : GracefulStep(t) /\ UNCHANGED << core_vars, beside_graceful_vars >>
    \/ \E x \in Exchanges, ok \in BOOLEAN :
         get_open_orders(x, ok) /\ UNCHANGED << core_vars, beside_graceful_vars >>
    \/ \E x \in Exchanges : cancel_orders(x) /\ UNCHANGED << core_vars, beside_graceful_vars >>
    \/ \E t \in Threads : sleep(t) /\ UNCHANGED << core_vars, beside_graceful_vars >>

SpecGraceful == InitGraceful /\ [][NextGraceful]_vars

\* the calls graceful awaits return, and the time of its sleep goes by;
\* nothing is assumed of the requests of cancel_opened_orders
SpecGracefulLive ==
    /\ SpecGraceful
    /\ WF_vars(\E t \in Threads : GracefulStep(t) /\ UNCHANGED << core_vars, beside_graceful_vars >>)
    /\ WF_vars(\E t \in Threads : sleep(t) /\ UNCHANGED << core_vars, beside_graceful_vars >>)

CancelStarted == engine.select # "none"
CancelOver == engine.select \in {"finished", "timeout"}
\* the parts of the order that hold of every service
BlockedCancelledDisconnectedFinished ==
    /\ CancelStarted => engine.blocked = Exchanges
    /\ engine.disconnected # {} => (CancelOver /\ engine.core_lvl_shutdown)
    /\ IsSome(engine.finished) => engine.disconnected = Exchanges

\* C24 as stated: the exchanges are blocked before cancel_opened_orders
\* starts, no service is stopped before cancel_opened_orders is over or out
\* of time, the exchanges are disconnected after that and the finish signal
\* is sent after the disconnects
C24_GracefulOrder ==
    /\ BlockedCancelledDisconnectedFinished
    /\ (engine.user_lvl_shutdown \/ engine.stop_blocker \/ engine.core_lvl_shutdown)
          => CancelOver

\* C24 amended: the user level services and the blocker are stopped before
\* cancel_opened_orders starts, the core level services after it is over or
\* out of time
C24_GracefulOrderByLevel ==
    /\ BlockedCancelledDisconnectedFinished
    /\ CancelStarted => (engine.stop_token /\ engine.user_lvl_shutdown /\ engine.stop_blocker)
    /\ engine.core_lvl_shutdown => CancelOver

\* a shutdown that ran out of time on the orders has sent its finish signal
C24_Witness ==
    /\ engine.select = "timeout"
    /\ engine.finished = Some("Nothing")
    /\ engine.disconnected = Exchanges
    /\ engine.blocked = Exchanges
    /\ engine.core_lvl_shutdown
    /\ \E x \in Exchanges : engine.cancelling[x] = "dropped"

\* C25: when the five seconds are over before cancel_opened_orders, its
\* token is cancelled and the shutdown goes on; a shutdown that has started
\* always disconnects the exchanges and sends the finish signal
C25_ShutdownNotBlockedByCancel ==
    /\ [](engine.select = "timeout" => (engine.cancellation_token /\ engine.elapsed = TIMEOUT))
    /\ [](engine.cancellation_token => engine.select = "timeout")
    /\ (engine.is_graceful_shutdown_started
          ~> (engine.disconnected = Exchanges /\ IsSome(engine.finished)))

\* the finish signal of a shutdown whose cancel_opened_orders never got an
\* answer from one exchange
C25_Witness ==
    /\ IsSome(engine.finished)
    /\ engine.cancellation_token
    /\ engine.elapsed = TIMEOUT
    /\ \E x \in Exchanges : engine.cancelling[x] = "dropped"
    /\ \E x \in Exchanges : engine.cancelling[x] = "finished"
    /\ \E t \in Threads : graceful[t].pc = "returned" /\ graceful[t].action = Some("Restart")
    /\ engine.futures_cancellation_token

(***************************************************************************)
(* MoreOrEqualsAvailableRequestsCountTriggerScheduler: triggers are        *)
(* registered with a threshold; schedule_triggers spawns, per trigger, a   *)
(* future that sleeps and then calls the handler.  Times are ticks of the  *)
(* clock now.                                                              *)
(***************************************************************************)
MaxTriggers == 2
MaxScheduleCalls == 2
MaxTime == 3
CountThresholds == {1, 2}
PeriodDurations == {1, 2}

\* lines 30-36
register_trigger(count_threshold) ==
    /\ Len(triggers) < MaxTriggers
    /\ triggers' = Append(triggers, count_threshold)
    /\ UNCHANGED << now, spawned, schedule_calls >>

Max(a, b) == IF a >= b THEN a ELSE b

\* > in the place of >=
schedule_handler_gt(trigger, nth_call, available_requests_count_on_last_request_time, last_request_time, period_duration, current_time) ==
    IF available_requests_count_on_last_request_time > triggers[trigger]
    THEN << >>
    ELSE << [trigger |-> trigger, call |-> nth_call, current_time |-> current_time,
             delay |-> Max(last_request_time + period_duration - current_time, 0),
             invoked_at |-> None] >>

\* lines 70-98: the futures the trigger spawns for this call: none, or one
\* that will sleep for delay
schedule_handler(trigger, nth_call, available_requests_count_on_last_request_time, last_request_time, period_duration, current_time) ==
    IF available_requests_count_on_last_request_time >= triggers[trigger]
    THEN << >>
    ELSE << [trigger |-> trigger, call |-> nth_call, current_time |-> current_time,
             delay |-> Max(last_request_time + period_duration - current_time, 0),
             invoked_at |-> None] >>

\* the for loop of schedule_triggers from the trigger-th trigger on
RECURSIVE schedule_from(_, _, _, _, _, _)
schedule_from(trigger, nth_call, available, last_request_time, period_duration, current_time) ==
    IF trigger > Len(triggers) THEN << >>
    ELSE schedule_handler(trigger, nth_call, available, last_request_time, period_duration, current_time)
           \o schedule_from(trigger + 1, nth_call, available, last_request_time, period_duration, current_time)

\* lines 38-54
schedule_triggers(available_requests_count_on_last_request_time, last_request_time, period_duration) ==
    /\ Len(schedule_calls) < MaxScheduleCalls
    /\ LET current_time == now
           nth_call == Len(schedule_calls) + 1
       IN  /\ spawned' = spawned \o schedule_from(1, nth_call,
                             available_requests_count_on_last_request_time,
                             last_request_time, period_duration, current_time)
           /\ schedule_calls' = Append(schedule_calls,
                 [available |-> available_requests_count_on_last_request_time,
                  last_request_time |-> last_request_time,
                  period_duration |-> period_duration,
                  current_time |-> current_time,
                  triggers |-> Len(triggers)])
    /\ UNCHANGED << now, triggers >>

\* lines 100-107: the sleep of the i-th future is over, the handler is called
handle_inner(i) ==
    /\ spawned[i].invoked_at = None
    /\ now >= spawned[i].current_time + spawned[i].delay
    /\ spawned' = [spawned EXCEPT ![i].invoked_at = Some(now)]
    /\ UNCHANGED << now, triggers, schedule_calls >>

\* Utc::now and the tokio clock go on
utc_now ==
    /\ now < MaxTime
    /\ now' = now + 1
    /\ UNCHANGED << triggers, spawned, schedule_calls >>

InitTriggers ==
    /\ CoreIdle
    /\ BnbIdle
    /\ balance = BalanceIdle("NonDerivative")
    /\ EngineIdle
    /\ now = 0
    /\ LimiterIdle
    /\ TriggersIdle

NextTriggers ==
    \/ \E count_threshold \in CountThresholds :
         register_trigger(count_threshold) /\ UNCHANGED << core_vars, beside_trigger_vars >>
    \/ \E available \in 0..2, last_request_time \in 0..now, period_duration \in PeriodDurations :
         schedule_triggers(available, last_request_time, period_duration)
         /\ UNCHANGED << core_vars, beside_trigger_vars >>
    \/ \E i \in 1..Len(spawned) : handle_inner(i) /\ UNCHANGED << core_vars, beside_trigger_vars >>
    \/ (utc_now /\ UNCHANGED << core_vars, beside_trigger_vars >>)

SpecTriggers == InitTriggers /\ [][NextTriggers]_vars

\* the futures spawned by the k-th call for the j-th trigger
SpawnedFor(k, j) == { i \in 1..Len(spawned) : spawned[i].call = k /\ spawned[i].trigger = j }

\* C22: a call of schedule_triggers spawns, for every trigger registered
\* with a threshold above the available count, one future, whose handler
\* is not called before last_request_time + period_duration and may be
\* called at once when that time is past; for every other trigger, none
C22_OneInvocationPerTriggerBelowThreshold ==
    /\ \A i \in 1..Len(spawned) :
          spawned[i].trigger <= schedule_calls[spawned[i].call].triggers
    /\ \A k \in 1..Len(schedule_calls) : \A j \in 1..schedule_calls[k].triggers :
          LET c == schedule_calls[k]
              trigger_time == c.last_request_time + c.period_duration
          IN  IF c.available < triggers[j]
              THEN /\ Cardinality(SpawnedFor(k, j)) = 1
                   /\ \A i \in SpawnedFor(k, j) :
                        /\ IsSome(spawned[i].invoked_at)
                             => Unwrap(spawned[i].invoked_at) >= trigger_time
                        /\ trigger_time <= c.current_time => spawned[i].delay = 0
                        /\ spawned[i].current_time + spawned[i].delay
                             = Max(trigger_time, c.current_time)
              ELSE SpawnedFor(k, j) = {}

\* one call met a trigger at its threshold and one above it; the handler
\* of the latter ran when its time had come; a later call found the time past
C22_Witness ==
    /\ triggers = << 1, 2 >>
    /\ Len(schedule_calls) = 2
    /\ schedule_calls[1].available = 1
    /\ schedule_calls[1].current_time = 0
    /\ schedule_calls[1].period_duration = 2
    /\ Len(spawned) = 3
    /\ spawned[1].trigger = 2
    /\ spawned[1].invoked_at = Some(2)
    /\ schedule_calls[2].available = 0
    /\ schedule_calls[2].last_request_time + schedule_calls[2].period_duration < schedule_calls[2].current_time
    /\ spawned[2].delay = 0
    /\ spawned[2].invoked_at = Some(spawned[2].current_time)

(***************************************************************************)
(* TimeoutManager::reserve_when_available (exchange.rs:540-551 is a call   *)
(* of it).  Reservations are kept per request kind of a venue in a rolling *)
(* window of requests_per_period slots per period_duration: a call waits   *)
(* until a slot is available or its cancellation token fires, then takes   *)
(* one slot and returns.  limiter[kind].returned holds the time of every   *)
(* return, in order.  The clock is in ticks of half a second.              *)
(***************************************************************************)
requests_per_period == 3
period_duration == 2
MaxReservations == 5
MaxLimiterTime == 4

\* a slot taken exactly period_duration ago still counts
reserved_within_shorter_period(returned, time) == Cardinality({i \in 1..Len(returned) : time - returned[i] < period_duration - 1})

\* the slots of a kind taken within the last period_duration before time
reserved_within_period(returned, time) == Cardinality({i \in 1..Len(returned) : time - returned[i] < period_duration})

is_slot_available(returned, time) == reserved_within_period(returned, time) < requests_per_period

\* a caller asks for a slot of a kind and is suspended
reserve_when_available_call(kind) ==
    /\ Len(limiter[kind].returned) + limiter[kind].waiting + limiter[kind].cancelled < MaxReservations
    /\ limiter' = [limiter EXCEPT ![kind].waiting = @ + 1]
    /\ UNCHANGED now

\* a suspended call finds a slot available, takes it and returns
reserve_when_available_return(kind) ==
    /\ limiter[kind].waiting > 0
    /\ is_slot_available(limiter[kind].returned, now)
    /\ limiter' = [limiter EXCEPT ![kind].waiting = @ - 1, ![kind].returned = Append(@, now)]
    /\ UNCHANGED now

\* the cancellation token of a suspended call fires: it returns without a slot
reserve_when_available_cancelled(kind) ==
    /\ limiter[kind].waiting > 0
    /\ limiter' = [limiter EXCEPT ![kind].waiting = @ - 1, ![kind].cancelled = @ + 1]
    /\ UNCHANGED now

\* the clock goes on while calls wait or not
limiter_clock ==
    /\ now < MaxLimiterTime
    /\ now' = now + 1
    /\ UNCHANGED limiter

InitLimiter ==
    /\ CoreIdle
    /\ BnbIdle
    /\ balance = BalanceIdle("NonDerivative")
    /\ EngineIdle
    /\ now = 0
    /\ LimiterIdle
    /\ TriggersIdle

NextLimiter ==
    \/ \E kind \in RequestTypes : reserve_when_available_call(kind) /\ UNCHANGED << core_vars, beside_limiter_vars >>
    \/ \E kind \in RequestTypes : reserve_when_available_return(kind) /\ UNCHANGED << core_vars, beside_limiter_vars >>
    \/ \E kind \in RequestTypes : reserve_when_available_cancelled(kind) /\ UNCHANGED << core_vars, beside_limiter_vars >>
    \/ (limiter_clock /\ UNCHANGED << core_vars, beside_limiter_vars >>)

SpecLimiter == InitLimiter /\ [][NextLimiter]_vars

\* the returns of a kind that fall into the window that starts at time
ReturnsInWindow(kind, time) == {i \in 1..Len(limiter[kind].returned) : time <= limiter[kind].returned[i] /\ limiter[kind].returned[i] < time + period_duration}

\* C21: for every request kind, every sliding window of length
\* period_duration holds at most requests_per_period successful returns of
\* reserve_when_available, so that the return number i + requests_per_period
\* comes no earlier than period_duration after return number i (3 per second
\* and 5 reservations: the 4th and 5th at least a second after the 1st and 2nd)
C21_SlidingWindow ==
    \A kind \in RequestTypes :
        /\ \A time \in 0..MaxLimiterTime : Cardinality(ReturnsInWindow(kind, time)) <= requests_per_period
        /\ \A i \in 1..Len(limiter[kind].returned) :
              i + requests_per_period <= Len(limiter[kind].returned) =>
                  limiter[kind].returned[i + requests_per_period] >= limiter[kind].returned[i] + period_duration

\* five reservations of one kind asked back to back at time 0 have all
\* returned: three at once, the 4th and 5th when the first period was over
C21_Witness ==
    \E kind \in RequestTypes :
        /\ limiter[kind].cancelled = 0
        /\ limiter[kind].returned = << 0, 0, 0, period_duration, period_duration >>

(***************************************************************************)
(* The resolution of the order of a fill that carries a client_order_id    *)
(* (handle_order_filled.rs:97-117).  The creation of the order c1 may have *)
(* failed by REST before the venue delivers its fills.                     *)
(***************************************************************************)
InitResolve ==
    /\ CoreIdle
    /\ ServiceIdle

NextResolve ==
    \/ \E event_data \in UserTradeEvents :
         /\ handled < MaxDelivered
         /\ handle_order_filled(1, event_data)
         /\ applied' = Some(Arrival("handle_order_filled", event_data.exchange_order_id,
                                    Some(event_data)))
         /\ UNCHANGED << pool_vars, service_vars >>
    \/ \E c \in ClientOrderIds, e \in ExchangeOrderIds :
         /\ raise_order_created(1, c, e)
         /\ applied' = Some(Arrival("raise_order_created", e, None))
         /\ UNCHANGED << pool_vars, service_vars >>
    \/ \E c \in ClientOrderIds :
         /\ AllIdle
         /\ handle_create_order_failed(c)
         /\ UNCHANGED << applied, ingress_vars, pool_vars, service_vars >>
    \/ (IngressStep(1) /\ UNCHANGED << applied, pool_vars, service_vars >>)
    \/ (HandlingStep(1) /\ UNCHANGED << applied, ingress_vars, pool_vars, service_vars >>)

SpecResolve == InitResolve /\ [][NextResolve]_vars

\* the event delivered last carried a client_order_id and its
\* exchange_order_id was bound to no order when it arrived
ClientIdFillOfUnboundOrder ==
    /\ IsSome(applied)
    /\ Unwrap(applied).report = "handle_order_filled"
    /\ IsSome(Unwrap(Unwrap(applied).event_data).client_order_id)
    /\ Unwrap(applied).order_ref = None

\* C31: a fill event that carries a client_order_id and whose
\* exchange_order_id is bound to no order is never buffered; its handling
\* binds the order to the exchange_order_id and the fill goes through the
\* application on that order
C31_ClientIdFillIsBoundAndApplied ==
    ClientIdFillOfUnboundOrder =>
        /\ th[1].pc # "buffered_fills_manager_add_fill"
        /\ buffered_fills[Unwrap(applied).exchange_order_id] \in {Unwrap(applied).buffered, << >>}
        /\ th[1].pc = "idle" =>
              /\ cache_by_exchange_id[Unwrap(applied).exchange_order_id]
                   = Unwrap(Unwrap(applied).event_data).client_order_id
              /\ th[1].panic # Some("Order should be inserted in orders.cache_by_exchange_id")

(***************************************************************************)
(* The role and the commission of a fill (handle_order_filled.rs:339-396): *)
(* orders with and without a role, events with and without a role, a       *)
(* commission currency, a commission rate and a commission amount.         *)
(* applied holds the event as the venue delivered it and what the order    *)
(* and the channel held when it arrived.                                   *)
(***************************************************************************)
EventCommissionRate == 3
EventCommissionAmount == 4
OrderRoles == {"Maker", "Taker"}
CommissionEvents ==
    [trade_id : {None},
     fill_price : Prices,
     fill_amount : 1..MaxAmount,
     is_diff : BOOLEAN,
     total_filled_amount : {None},
     order_role : {None} \cup { Some(x) : x \in OrderRoles },
     commission_currency_code : {None, Some(base_currency_code), Some(quote_currency_code)},
     commission_rate : {None, Some(EventCommissionRate)},
     commission_amount : {None, Some(EventCommissionAmount)}]

InitCommission ==
    /\ orders \in [ClientOrderIds ->
                     [amount : {MaxAmount}, status : {"Created"},
                      role : {None} \cup { Some(x) : x \in OrderRoles },
                      was_cancellation_event_raised : {FALSE},
                      fills : {<< >>}, filled_amount : {0}]]
    /\ not_finished = ClientOrderIds
    /\ events = << >>
    /\ is_derivative = FALSE
    /\ th = [t \in Threads |-> IdleLocals]
    /\ handled = 0
    /\ applied = None
    /\ cache_by_exchange_id = [e \in ExchangeOrderIds |-> None]
    /\ buffered_fills = [e \in ExchangeOrderIds |-> << >>]
    /\ allowed_fill_event_source_type = "All"
    /\ pool = EmptyPool
    /\ call = [t \in Threads |-> IdleCall]
    /\ ServiceIdle

NextCommission ==
    \/ \E c \in ClientOrderIds, event_data \in CommissionEvents :
         /\ create_and_add_order_fill(1, c, event_data)
         /\ applied' = Some([event_data |-> event_data, order |-> c,
                             fills |-> orders[c].fills, events |-> events])
         /\ UNCHANGED << ingress_vars, pool_vars, service_vars >>
    \/ (HandlingStep(1) /\ UNCHANGED << applied, ingress_vars, pool_vars, service_vars >>)

SpecCommission == InitCommission /\ [][NextCommission]_vars

\* the event handled last, as delivered, and the order it is for
Delivered == Unwrap(applied).event_data
DeliveredTo == orders[Unwrap(applied).order]
\* the handling has resolved the role of the fill
RoleResolved == th[1].pc \in {"add_fill", "panic_if_fill_amounts_comformity", "send_order_filled_event", "add_event_on_order_change", "react_if_order_completed", "react_if_order_completed_clone"}
\* the handling is over and was not dropped by one of the guards a-f
EndedPastGuards == th[1].pc = "idle" /\ th[1].log \notin { Some("Trade was received already"), Some("Unable to process a diff fill after a non-diff one"), Some("order.filled_amount >= received fill"), Some("last_fill_amount was received for 0"), Some("cost_diff <= 0"), Some("Fill was missed") }
NeitherHasRole == Delivered.order_role = None /\ DeliveredTo.role = None
\* the handling has appended the fill of the event delivered last
FillAppended == Len(DeliveredTo.fills) = Len(Unwrap(applied).fills) + 1
AppendedFill == DeliveredTo.fills[Len(DeliveredTo.fills)]

\* C32: the role of a fill is the role of the event when it has one, else the
\* role of the order; when neither has a role the handling of an event that
\* has passed the guards a-f ends in a fatal error (of the terminal-status
\* guard or of the role resolution), whatever commission rate or amount the
\* event carries, with no fill appended and no event sent
C32_RoleOfEventThenOfOrder ==
    IsSome(applied) =>
        /\ RoleResolved =>
             /\ IsSome(th[1].order_role)
             /\ th[1].order_role = IF IsSome(Delivered.order_role)
                                   THEN Delivered.order_role ELSE DeliveredTo.role
        /\ FillAppended =>
             Some(AppendedFill.role) = IF IsSome(Delivered.order_role)
                                       THEN Delivered.order_role ELSE DeliveredTo.role
        /\ NeitherHasRole =>
             /\ ~RoleResolved
             /\ DeliveredTo.fills = Unwrap(applied).fills
             /\ events = Unwrap(applied).events
             /\ EndedPastGuards => th[1].panic \in { Some("Fill was received for a"), Some("Fill has neither commission nor commission rate"), Some("Unable to determine order_role") }

\* an event without role but with a commission amount, for an order without
\* role, has ended in the fatal error
C32_Witness ==
    /\ IsSome(applied)
    /\ NeitherHasRole
    /\ IsSome(Delivered.commission_amount)
    /\ th[1].pc = "idle"
    /\ th[1].panic = Some("Unable to determine order_role")

\* an event with the role Maker has been applied to an order of role Taker
C32_WitnessEventRole ==
    /\ IsSome(applied)
    /\ FillAppended
    /\ Delivered.order_role = Some("Maker")
    /\ DeliveredTo.role = Some("Taker")
    /\ AppendedFill.role = "Maker"

\* the fill amount in the commission currency of the event delivered last
ConvertedFillAmount ==
    IF Delivered.commission_currency_code \in {None, Some(base_currency_code)}
    THEN AppendedFill.amount
    ELSE AppendedFill.amount * AppendedFill.price
\* the rate of the event, else the rate of the venue for the role of the fill
ResolvedRate ==
    IF IsSome(Delivered.commission_rate)
    THEN Unwrap(Delivered.commission_rate)
    ELSE IF AppendedFill.role = "Maker" THEN 1 ELSE 2
\* the commissions of the fills the order had when the event arrived, for a
\* cumulative report that is not the first fill
CommissionOfEarlierFills ==
    IF ~Delivered.is_diff /\ Len(Unwrap(applied).fills) > 0
    THEN SumField(Unwrap(applied).fills, "commission_amount")
    ELSE 0

\* C33: the commission amount of an appended fill is the commission amount
\* of the event when it has one; else the fill amount in the commission
\* currency times the commission rate of the event when it has one, else
\* times the rate of the venue for the role of the fill
C33_CommissionOfFill ==
    (IsSome(applied) /\ FillAppended) =>
        AppendedFill.commission_amount =
            IF IsSome(Delivered.commission_amount)
            THEN Unwrap(Delivered.commission_amount)
            ELSE ConvertedFillAmount * ResolvedRate

\* C33, for the commission amount of a cumulative report: the commission
\* amount of an appended fill is the commission amount of the event, less
\* the commissions of the fills the order already has when the event is a
\* cumulative report and not the first fill; without a commission amount it
\* is the fill amount in the commission currency times the rate of the
\* event, else of the venue for the role of the fill
C33_CommissionOfFillLessEarlier ==
    (IsSome(applied) /\ FillAppended) =>
        AppendedFill.commission_amount =
            IF IsSome(Delivered.commission_amount)
            THEN Unwrap(Delivered.commission_amount) - CommissionOfEarlierFills
            ELSE ConvertedFillAmount * ResolvedRate

\* a fill has been appended for an event that gives a rate and no amount,
\* with a commission in the quote currency, at a price that is not 1
C33_WitnessRate ==
    /\ IsSome(applied)
    /\ FillAppended
    /\ Delivered.commission_amount = None
    /\ Delivered.commission_rate = Some(EventCommissionRate)
    /\ Delivered.commission_currency_code = Some(quote_currency_code)
    /\ AppendedFill.price = 2
    /\ AppendedFill.commission_amount = AppendedFill.amount * 2 * EventCommissionRate

\* a cumulative report with a commission amount has been applied to an order
\* that had a fill with a commission: the fill holds the difference
C33_Witness ==
    /\ IsSome(applied)
    /\ FillAppended
    /\ ~Delivered.is_diff
    /\ Delivered.commission_amount = Some(EventCommissionAmount)
    /\ CommissionOfEarlierFills > 0
    /\ AppendedFill.commission_amount = EventCommissionAmount - CommissionOfEarlierFills

(***************************************************************************)
(* C34: CancelOrderSucceeded raised through add_event_on_order_change sets *)
(* was_cancellation_event_raised before the event is published; the flag   *)
(* is never reset; and once it is set no fill is appended to the order.    *)
(***************************************************************************)
CancelRaised(c) == \E i \in 1..Len(events) : events[i].order = c /\ events[i].event_type = "CancelOrderSucceeded"

FlagSetWhenPublished == \A c \in ClientOrderIds : CancelRaised(c) => orders[c].was_cancellation_event_raised

FlagNeverReset == \A c \in ClientOrderIds : orders[c].was_cancellation_event_raised => orders'[c].was_cancellation_event_raised

NoFillOnceFlagSet == \A c \in ClientOrderIds : orders[c].was_cancellation_event_raised => orders'[c].fills = orders[c].fills

C34_NoFillAfterCancelRaised ==
    /\ []FlagSetWhenPublished
    /\ [][FlagNeverReset]_vars
    /\ [][NoFillOnceFlagSet]_vars

(***************************************************************************)
(* The events of a successful attempt of get_balance (exchange.rs:621-660) *)
(***************************************************************************)
\* what the call returned, once it has returned Some
Returned == Unwrap(Unwrap(balance.returned))
ReturnedPositions == IF Returned.positions = None THEN << >> ELSE Unwrap(Returned.positions)
LiquidationPriceEvents(positions) == [i \in 1..Len(positions) |-> [event |-> "LiquidationPrice", position |-> positions[i]]]
BalanceUpdateEvent(balances_and_positions) == [event |-> "BalanceUpdate", balances_and_positions |-> balances_and_positions]
AllKnown(positions) == \A i \in 1..Len(positions) : positions[i].known
IsPrefix(s, t) == Len(s) <= Len(t) /\ s = SubSeq(t, 1, Len(s))

\* C35: in the attempt of get_balance that succeeds the positions of unknown
\* symbols are filtered out first, then the LiquidationPrice events of the
\* remaining positions are sent, and BalanceUpdate is sent last, before
\* get_balance returns
C35_BalanceUpdateLast ==
    ReturnedSome =>
        /\ AllKnown(ReturnedPositions)
        /\ balance.sent = LiquidationPriceEvents(ReturnedPositions) \o << BalanceUpdateEvent(Returned) >>

\* C35 with the events in the order of the code: the positions of unknown
\* symbols are filtered out first; BalanceUpdate, which carries the positions
\* left, is the first event sent; the LiquidationPrice events of these
\* positions follow in their order, and all of them are sent when
\* get_balance returns
C35_BalanceUpdateFirst ==
    /\ balance.sent # << >> =>
          LET update == balance.sent[1]
              positions == IF update.balances_and_positions.positions = None THEN << >>
                           ELSE Unwrap(update.balances_and_positions.positions)
          IN  /\ update.event = "BalanceUpdate"
              /\ AllKnown(positions)
              /\ IsPrefix(Tail(balance.sent), LiquidationPriceEvents(positions))
    /\ ReturnedSome =>
          /\ AllKnown(ReturnedPositions)
          /\ balance.sent = << BalanceUpdateEvent(Returned) >> \o LiquidationPriceEvents(ReturnedPositions)

\* get_balance has returned the balances with one position left of the two
\* the venue sent, and has sent BalanceUpdate and one LiquidationPrice
C35_Witness ==
    /\ ReturnedSome
    /\ Len(ReturnedPositions) = 1
    /\ Len(balance.sent) = 2
    /\ balance.sent[2].event = "LiquidationPrice"

(***************************************************************************)
(* C36: with IndividualRequests a balance response that carries positions  *)
(* is a fatal misconfiguration: get_balance aborts on it and does not      *)
(* count it as a failed attempt that is retried.                           *)
(***************************************************************************)
Misconfigured(i) == balance.outcomes[i] = "Exchange supports SingleRequest but Individual is used"

C36_MisconfigurationAborts ==
    \A i \in 1..Len(balance.outcomes) :
        Misconfigured(i) =>
            /\ balance.option = "IndividualRequests"
            /\ i = Len(balance.outcomes)
            /\ balance.pc = "done"
            /\ balance.returned = None

(***************************************************************************)
(* C37: for every order the OrderFilled events of the pipeline are as many *)
(* as the fills it appended to the ledger of the order: the n-th           *)
(* OrderFilled carries a clone whose fills are the first n fills of the    *)
(* ledger, an appended fill still without its event belongs to the         *)
(* handling that is on its way from the append to the sending, and a       *)
(* handling that appended nothing sent nothing.                            *)
(***************************************************************************)
IsOrderFilledOf(c, event) == event.order = c /\ event.event_type = "OrderFilled"

OrderFilledEvents(c) == SelectSeq(events, LAMBDA event : IsOrderFilledOf(c, event))

BetweenAppendAndEvent(t, c) ==
    /\ th[t].order_ref = Some(c)
    /\ \/ th[t].pc \in {"panic_if_fill_amounts_comformity", "send_order_filled_event"}
       \/ th[t].pc = "add_event_on_order_change" /\ th[t].event_type = Some("OrderFilled")

C37_OrderFilledPerAppendedFill ==
    \A c \in ClientOrderIds :
        LET sent == OrderFilledEvents(c)
            pending == IF \E t \in Threads : BetweenAppendAndEvent(t, c) THEN 1 ELSE 0
        IN  /\ Len(orders[c].fills) = Len(sent) + pending
            /\ \A n \in 1..Len(sent) :
                   sent[n].cloned_order.fills = SubSeq(orders[c].fills, 1, n)

(***************************************************************************)
(* C38: however many callers of EngineContext::graceful there are, one     *)
(* after the other or at the same time, the shutdown sequence runs once:   *)
(* at most one caller is ever inside the sequence, a call that finds       *)
(* is_graceful_shutdown_started set returns at once and leaves the engine  *)
(* as it is, the engine changes only while the one caller is inside the    *)
(* sequence, and finish_graceful_shutdown_sender is taken once: no caller  *)
(* finds it taken, and once taken the action sent stays the same.          *)
(***************************************************************************)
InSequence(t) == graceful[t].pc \notin {"idle", "returned"}

OneCallerInSequence ==
    /\ Cardinality({t \in Threads : InSequence(t)}) <= 1
    /\ \A t \in Threads : graceful[t].pc # "panic"

LaterCallReturns ==
    \A t \in Threads :
        (graceful[t].pc = "idle" /\ graceful'[t].pc # "idle" /\ engine.is_graceful_shutdown_started)
            => (graceful'[t].pc = "returned" /\ engine' = engine)

EngineChangedByFirstCaller ==
    engine' # engine =>
        \/ \E t \in Threads : InSequence(t)
        \/ \E t \in Threads : /\ ~engine.is_graceful_shutdown_started
                              /\ graceful[t].pc = "idle" /\ InSequence(t)'

SenderTakenOnce ==
    engine.finish_graceful_shutdown_sender = None =>
        /\ engine'.finish_graceful_shutdown_sender = None
        /\ engine'.finished = engine.finished
        /\ engine.finished # None

C38_ShutdownRunsOnce ==
    /\ []OneCallerInSequence
    /\ [][LaterCallReturns]_vars
    /\ [][EngineChangedByFirstCaller]_vars
    /\ [][SenderTakenOnce]_vars

\* both callers are back, the action sent is the one of the first
C38_Witness ==
    /\ \A t \in Threads : graceful[t].pc = "returned"
    /\ engine.finish_graceful_shutdown_sender = None
    /\ engine.finished = Some("Restart")
    /\ \E t \in Threads : graceful[t].action = Some("Nothing")

(***************************************************************************)
(* The Binance adapter (binance.rs): Binance::handle_order_fill takes an   *)
(* execution report of the user data stream, builds the FillEventData in   *)
(* prepare_data_for_fill_handler and hands it to the callback of the core  *)
(* under the mutex of the callback.  A report is a record of its JSON      *)
(* fields; "i" is kept as a JSON value, the other fields are present with  *)
(* the JSON type of the venue's documentation.                             *)
(***************************************************************************)
JsonString(text) == [kind |-> "string", text |-> text]
JsonNumber(text) == [kind |-> "number", text |-> text]

\* Value::to_string: a string is written between quotes, a number as it is
to_string(value) ==
    LET body == IF value.text = "" THEN << >> ELSE << value.text >>
    IN  IF value.kind = "string" THEN << "\"" >> \o body \o << "\"" >> ELSE body

RECURSIVE trim_start_matches(_, _)
trim_start_matches(chars, pattern) ==
    IF chars # << >> /\ Head(chars) = pattern THEN trim_start_matches(Tail(chars), pattern)
    ELSE chars

RECURSIVE trim_end_matches(_, _)
trim_end_matches(chars, pattern) ==
    IF chars # << >> /\ chars[Len(chars)] = pattern
    THEN trim_end_matches(SubSeq(chars, 1, Len(chars) - 1), pattern)
    ELSE chars

trim_matches(chars, pattern) == trim_end_matches(trim_start_matches(chars, pattern), pattern)

\* the text the pieces left by trim_matches make up
text_of(chars) == IF chars = << >> THEN "" ELSE chars[1]

\* str::parse::<Decimal> on the texts of the reports
parse(text) ==
    IF text = "0" THEN Ok(0)
    ELSE IF text = "1" THEN Ok(1)
    ELSE IF text = "2" THEN Ok(2)
    ELSE Err("Invalid decimal")

\* the currencies the venue has loaded for the symbol
supported_currencies == [currency_id \in {base_currency_code, quote_currency_code} |-> currency_id]

get_currency_code(currency_id) ==
    IF currency_id \in DOMAIN supported_currencies THEN Some(supported_currencies[currency_id])
    ELSE None

to_local_order_side(side) == IF side = "BUY" THEN "Buy" ELSE "Sell"

\* lines 423-429
get_fill_type(raw_type) ==
    IF raw_type = "CALCULATED" THEN Ok("Liquidation")
    ELSE IF raw_type \in {"FILL", "TRADE", "PARTIAL_FILL"} THEN Ok("UserTrade")
    ELSE Err("Unable to map trade type")

\* lines 352-420
prepare_data_for_fill_handler(json_response, execution_type, client_order_id, exchange_order_id) ==
    LET commission_currency_code == get_currency_code(json_response.N)
        fill_type == get_fill_type(execution_type)
        order_role == IF json_response.m THEN "Maker" ELSE "Taker"
        fill_price == parse(json_response.L)
        fill_amount == parse(json_response.l)
        total_filled_amount == parse(json_response.z)
        commission_amount == parse(json_response.n)
    IN  IF commission_currency_code = None THEN Err("There are no suck supported currency code")
        ELSE IF ~fill_type.ok THEN fill_type
        ELSE IF ~fill_price.ok THEN fill_price
        ELSE IF ~fill_amount.ok THEN fill_amount
        ELSE IF ~total_filled_amount.ok THEN total_filled_amount
        ELSE IF ~commission_amount.ok THEN commission_amount
        ELSE Ok([FillEventData("WebSocket", exchange_order_id, Some(client_order_id),
                               fill_type.value, None,
                               Some(to_local_order_side(json_response.S)), None,
                               json_response.t, fill_price.value, fill_amount.value)
                   EXCEPT !.total_filled_amount = Some(total_filled_amount.value),
                          !.order_role = Some(order_role),
                          !.commission_currency_code = commission_currency_code,
                          !.commission_amount = Some(commission_amount.value)])

\* the execution reports of type TRADE and CALCULATED a venue sends
ExecutionReports ==
    [C : {"", "c1"}, c : ClientOrderIds,
     i : {JsonNumber("e1"), JsonString("e1"), JsonString("")},
     x : {"TRADE", "CALCULATED"},
     t : TradeIds,
     L : {"1", "one"}, l : {"1", "2"}, z : {"2"}, n : {"0"},
     N : {quote_currency_code, "DOGE"},
     m : BOOLEAN, S : {"BUY"}]

\* lines 249-260 and 321-330: the arm of TRADE and CALCULATED; an Err of
\* prepare_data_for_fill_handler leaves the handler before the callback
handle_order_fill(json_response) ==
    LET original_client_order_id == json_response.C
        client_order_id == IF original_client_order_id = "" THEN json_response.c
                           ELSE original_client_order_id
        exchange_order_id == text_of(trim_matches(to_string(json_response.i), "\""))
        event_data == prepare_data_for_fill_handler(json_response, json_response.x,
                                                    client_order_id, exchange_order_id)
    IN  /\ th[1].pc = "idle"
        /\ handled < MaxDelivered
        /\ IF event_data.ok
           THEN /\ handle_order_filled(1, event_data.value)
                /\ applied' = Some(Arrival("handle_order_fill", exchange_order_id,
                                           Some(event_data.value)))
           ELSE /\ applied' = Some(Arrival(event_data.error, exchange_order_id, None))
                /\ UNCHANGED << core_vars, ingress_vars >>

InitBinance ==
    /\ CoreIdle
    /\ ServiceIdle

NextBinance ==
    \/ \E json_response \in ExecutionReports :
         handle_order_fill(json_response) /\ UNCHANGED << pool_vars, service_vars >>
    \/ \E c \in ClientOrderIds, e \in ExchangeOrderIds :
         /\ raise_order_created(1, c, e)
         /\ applied' = Some(Arrival("raise_order_created", e, None))
         /\ UNCHANGED << pool_vars, service_vars >>
    \/ (IngressStep(1) /\ UNCHANGED << applied, pool_vars, service_vars >>)
    \/ (HandlingStep(1) /\ UNCHANGED << applied, ingress_vars, pool_vars, service_vars >>)

SpecBinance == InitBinance /\ [][NextBinance]_vars

(***************************************************************************)
(* C39: every FillEventData the Binance adapter builds from an execution   *)
(* report of type TRADE or CALCULATED meets the field preconditions of     *)
(* handle_order_filled for its fill_type: its exchange_order_id is not     *)
(* empty, a Liquidation fill has currency pair, side and order amount and  *)
(* no client_order_id, and the handling of the event never ends in one of  *)
(* the fatal errors of these field checks.                                 *)
(***************************************************************************)
FieldCheckPanics ==
    {Some("Received HandleOrderFilled with an empty exchangeOrderId"),
     Some("Currency pair should be set for liquidation trade"),
     Some("Side should be set for liquidation or close position trade"),
     Some("Client order id cannot be set for liquidation or close position trade"),
     Some("Order amount should be set for liquidation or close position trade")}

C39_AdapterMeetsFieldPreconditions ==
    (IsSome(applied) /\ Unwrap(applied).report = "handle_order_fill") =>
        LET event_data == Unwrap(Unwrap(applied).event_data)
        IN  /\ event_data.exchange_order_id # ""
            /\ event_data.fill_type \in {"Liquidation", "ClosePosition"}
                   => add_external_order_panic(event_data) = None
            /\ th[1].panic \notin FieldCheckPanics

=============================================================================
